---- MODULE Spec2Model ----
(***************************************************************************)
(* File Process Tracker: batched one-time copy of files from a source      *)
(* directory to a target directory, tracked in an SQLite record store.     *)
(* Model of src/src/file_processor.py (FileProcessor) and                   *)
(* src/src/database.py (DatabaseManager).                                   *)
(***************************************************************************)
EXTENDS Integers, Sequences, FiniteSets, TLC

(***************************************************************************)
(* Bounds of the model                                                     *)
(***************************************************************************)
\* largest batch_size a processor is constructed with
MaxBatch == 2
\* number of process_batch / clean_target_orphans calls explored
MaxRuns == 2
\* number of failures the environment injects (I/O errors, store errors)
MaxFaults == 1
\* number of direct add_processed_file calls by a client of the store
MaxApiAdds == 1
\* sizes and copy dates a client of the store passes to add_processed_file
MaxSize == 2
MaxDate == 2
\* length of the lists a client passes to get_unprocessed_files
MaxFilenames == 3
\* number of rows a client of the store inserts
MaxRows == 2
\* number of log_error calls of a client of the store
MaxStoreErrors == 1

(***************************************************************************)
(* Values                                                                  *)
(***************************************************************************)
\* a path that holds no file
NoFile == [size |-> -1, data |-> "none"]
\* Python None
None == "None"

\* base file names, as sequences of characters
NameA == <<"a">>
NameT == <<"c", ".", "t">>
Names == {NameA, NameT}

\* paths below the source root: dir "" is the root itself
PathA == [dir |-> "", name |-> NameA]
PathSubA == [dir |-> "sub", name |-> NameA]
PathT == [dir |-> "", name |-> NameT]
SourcePaths == {PathA, PathSubA, PathT}

\* exclude pattern lists a processor is configured with
PatTmp == <<"*", ".", "t">>
PatternLists == {<<>>, <<PatTmp>>}

\* the regular file a candidate source path holds when it exists
Content(path) ==
    [size |-> IF path = PathA THEN 2 ELSE 1,
     data |-> IF path = PathA THEN "A"
              ELSE IF path = PathSubA THEN "SubA" ELSE "T"]
\* a file dropped into the target directory by hand
External == [size |-> 1, data |-> "ext"]

Range(s) == {s[i] : i \in DOMAIN s}

(***************************************************************************)
(* fnmatch.fnmatch(filename, pattern): shell-glob match with * and ?       *)
(***************************************************************************)
RECURSIVE fnmatch(_, _)
fnmatch(filename, pattern) ==
    IF pattern = <<>> THEN filename = <<>>
    ELSE IF Head(pattern) = "*"
         THEN fnmatch(filename, Tail(pattern))
              \/ (filename # <<>> /\ fnmatch(Tail(filename), pattern))
         ELSE /\ filename # <<>>
              /\ (Head(pattern) = "?" \/ Head(pattern) = Head(filename))
              /\ fnmatch(Tail(filename), Tail(pattern))

\* mutant of _is_excluded: the name is compared with the pattern, not matched
_is_excluded_exact(file_path, exclude_patterns) ==
    \E i \in DOMAIN exclude_patterns : file_path.name = exclude_patterns[i]

\* FileProcessor._is_excluded: the base name matches any exclude pattern
_is_excluded(file_path, exclude_patterns) ==
    \E i \in DOMAIN exclude_patterns : fnmatch(file_path.name, exclude_patterns[i])

(***************************************************************************)
(* files.sort(key=lambda p: p.name): stable sort by base name              *)
(***************************************************************************)
\* code point of a character
Ord(c) ==
    CASE c = "*" -> 42 [] c = "." -> 46 [] c = "?" -> 63
      [] c = "a" -> 97 [] c = "c" -> 99
      [] c = "t" -> 116

\* str.__lt__: lexicographic order on code points
RECURSIVE StrLess(_, _)
StrLess(s, t) ==
    IF t = <<>> THEN FALSE
    ELSE IF s = <<>> THEN TRUE
    ELSE IF Head(s) = Head(t) THEN StrLess(Tail(s), Tail(t))
    ELSE Ord(Head(s)) < Ord(Head(t))

\* insert x behind every element whose key is not greater (stability)
RECURSIVE SortInsert(_, _)
SortInsert(sorted, x) ==
    IF sorted = <<>> THEN <<x>>
    ELSE IF StrLess(x.name, Head(sorted).name)
         THEN <<x>> \o sorted
         ELSE <<Head(sorted)>> \o SortInsert(Tail(sorted), x)

RECURSIVE SortByName(_)
SortByName(files) ==
    IF files = <<>> THEN <<>>
    ELSE SortInsert(SortByName(SubSeq(files, 1, Len(files) - 1)), files[Len(files)])

\* the orders in which glob() may discover a set of paths
Orderings(S) ==
    {o \in [1..Cardinality(S) -> S] : \A i, j \in DOMAIN o : i # j => o[i] # o[j]}

\* the paths source_dir.glob(pattern) yields that are regular files
Globbed(src, recursive) ==
    {p \in SourcePaths : src[p] # NoFile /\ (recursive \/ p.dir = "")}

\* FileProcessor.get_source_files, given the discovery order of glob()
get_source_files(discovery, exclude_patterns) ==
    SortByName(SelectSeq(discovery, LAMBDA p : ~_is_excluded(p, exclude_patterns)))

(***************************************************************************)
(* DatabaseManager: table processed_files (filename UNIQUE) and errors     *)
(***************************************************************************)
\* mutant of is_file_processed: the SELECT has no WHERE clause
is_file_processed_any_row(table, filename) ==
    table # <<>>

\* mutant of is_file_processed: the query is given the full path, which the
\* column filename of no row holds
is_file_processed_by_path(table, filename) == FALSE

\* the row a SELECT ... WHERE filename = ? finds
is_file_processed(table, filename) ==
    \E i \in DOMAIN table : table[i].filename = filename

\* mutant of UniqueViolated: the column is not declared UNIQUE
UniqueNotDeclared(table, filename) == FALSE

\* the UNIQUE constraint on processed_files.filename rejects the INSERT
UniqueViolated(table, filename) ==
    \E i \in DOMAIN table : table[i].filename = filename

\* mutant of get_unprocessed_files: the filter keeps the recorded names
get_unprocessed_files_inverted(table, source_files) ==
    IF source_files = <<>> THEN <<>>
    ELSE LET processed == {table[i].filename : i \in DOMAIN table}
                            \cap Range(source_files)
         IN  SelectSeq(source_files, LAMBDA f : f \in processed)

\* mutant of get_unprocessed_files: a name given twice is returned once
get_unprocessed_files_once(table, source_files) ==
    IF source_files = <<>> THEN <<>>
    ELSE LET processed == {table[i].filename : i \in DOMAIN table}
                            \cap Range(source_files)
             first(i) == \A j \in 1..(i - 1) : source_files[j] # source_files[i]
             keep == {i \in DOMAIN source_files :
                         source_files[i] \notin processed /\ first(i)}
         IN  [k \in 1..Cardinality(keep) |->
                 source_files[CHOOSE i \in keep :
                                 Cardinality({j \in keep : j <= i}) = k]]

\* DatabaseManager.get_unprocessed_files
get_unprocessed_files(table, source_files) ==
    IF source_files = <<>> THEN <<>>
    ELSE LET processed == {table[i].filename : i \in DOMAIN table}
                            \cap Range(source_files)
         IN  SelectSeq(source_files, LAMBDA f : f \notin processed)

\* the table after add_processed_file's INSERT and commit
add_processed_file(table, filename, source_path, target_path, size, copy_date, file_hash) ==
    Append(table, [id |-> Len(table) + 1, filename |-> filename,
                   source_path |-> source_path, target_path |-> target_path,
                   size |-> size, copy_date |-> copy_date, hash |-> file_hash])

\* the table errors after log_error's INSERT and commit
log_error(table, timestamp, filename, error_type, error_message) ==
    Append(table, [id |-> Len(table) + 1, timestamp |-> timestamp,
                   filename |-> filename, error_type |-> error_type,
                   error_message |-> error_message])

\* mutant of SelectFiles: the break tests > instead of >=
RECURSIVE SelectFilesOffByOne(_, _, _, _)
SelectFilesOffByOne(source_files, unprocessed_names, batch_size, files_to_process) ==
    IF source_files = <<>> THEN files_to_process
    ELSE IF Head(source_files).name \in Range(unprocessed_names)
         THEN LET sel == Append(files_to_process, Head(source_files))
              IN  IF Len(sel) > batch_size THEN sel
                  ELSE SelectFilesOffByOne(Tail(source_files), unprocessed_names,
                                           batch_size, sel)
         ELSE SelectFilesOffByOne(Tail(source_files), unprocessed_names,
                                  batch_size, files_to_process)

\* the selection loop of process_batch (lines 218-223), break included
RECURSIVE SelectFiles(_, _, _, _)
SelectFiles(source_files, unprocessed_names, batch_size, files_to_process) ==
    IF source_files = <<>> THEN files_to_process
    ELSE IF Head(source_files).name \in Range(unprocessed_names)
         THEN LET sel == Append(files_to_process, Head(source_files))
              IN  IF Len(sel) >= batch_size THEN sel
                  ELSE SelectFiles(Tail(source_files), unprocessed_names, batch_size, sel)
         ELSE SelectFiles(Tail(source_files), unprocessed_names, batch_size, files_to_process)

(***************************************************************************)
(* State                                                                   *)
(***************************************************************************)
VARIABLES
    source,            \* source directory: SourcePaths -> file or NoFile
    target_dir_exists, \* whether the target directory exists
    target,            \* target directory: Names -> file or NoFile
    processed_files,   \* table processed_files, rows in insertion order
    errors,            \* table errors, rows in insertion order
    now,               \* datetime.now(), a logical clock
    cfg,               \* per processor: the constructor arguments
    pc,                \* per processor: position in the running method
    files_to_process,  \* per processor: the selected batch
    idx,               \* per processor: loop position in files_to_process
    cur,               \* per processor: locals of the current loop body
    stats,             \* per processor: the stats dict being built
    result,            \* per processor: value returned by the last call
    orphans,           \* per processor: clean_target_orphans' set still to visit
    deleted,           \* per processor: clean_target_orphans' counter
    runs,              \* number of calls started so far
    faults,            \* number of injected failures so far
    api_adds,          \* number of direct add_processed_file calls so far
    api_result,        \* outcome of the last direct add_processed_file call
    times_processed,   \* history: per name, how often a real-mode run listed
                       \* it in files_processed
    handled,           \* history, per processor: the files the loop of the
                       \* current call has dealt with, in order, each with what
                       \* the loop found, what the environment did and the outcome
    clean_seen,        \* history, per processor, while clean_target_orphans
                       \* runs: the target as the call found it and the names
                       \* whose deletion failed
    source_dir_exists, \* whether the source directory exists
    exit_code,         \* per invocation of main: the process exit code
    config,            \* per invocation of main: its Config object cfg, once
                       \* loaded, validated and overridden by the command line
    call,              \* the last call of a client to the record store, with
                       \* its arguments and what it returned
    added              \* history: the file names for which add_processed_file
                       \* has returned without an exception

vars == <<source, target_dir_exists, target, processed_files, errors, now,
          cfg, pc, files_to_process, idx, cur, stats, result, orphans,
          deleted, runs, faults, api_adds, api_result, times_processed,
          handled, clean_seen, source_dir_exists, exit_code, config,
          call, added>>

world == <<source, target_dir_exists, target, processed_files, errors, now>>
locals == <<files_to_process, idx, cur, stats, orphans, deleted>>

Procs == {1, 2}

\* the names a hand-dropped target file may have in the initial state
DropInNames == {NameA}

\* stats as initialised at the top of process_batch; 'duration' is not set yet
EmptyStats ==
    [processed |-> 0, skipped |-> 0, errors |-> 0, total_size |-> 0,
     files_processed |-> <<>>, files_skipped |-> <<>>, files_errors |-> <<>>,
     duration |-> "absent"]

NoCfg == [batch_size |-> 0, dry_run |-> FALSE, compute_hash |-> FALSE,
          exclude_patterns |-> <<>>, recursive |-> FALSE]
NoCur == [file_size |-> 0, error_msg |-> None, file_hash |-> None,
          env |-> "ok", seen_recorded |-> {}, seen_present |-> {}]
NoResult == [kind |-> "none", stats |-> EmptyStats, deleted |-> 0]
\* exit_code of an invocation of main that has not exited
Running == -1
\* main has no Config object yet
NoConfig == [missing |-> TRUE]
\* no client has called the record store yet
NoCall == [op |-> "none"]

\* no call of clean_target_orphans is running
NoCleanSeen == [before |-> [n \in Names |-> NoFile], failed |-> {}]

Init ==
    /\ source \in [SourcePaths -> {NoFile} \cup {Content(p) : p \in SourcePaths}]
    /\ \A p \in SourcePaths : source[p] \in {NoFile, Content(p)}
    /\ target_dir_exists \in BOOLEAN
    /\ source_dir_exists \in BOOLEAN
    /\ ~source_dir_exists => \A p \in SourcePaths : source[p] = NoFile
    /\ target \in [Names -> {NoFile, External}]
    /\ \A n \in Names : target[n] # NoFile => (target_dir_exists /\ n \in DropInNames)
    /\ processed_files = <<>>
    /\ errors = <<>>
    /\ now = 1
    /\ cfg = [p \in Procs |-> NoCfg]
    /\ pc = [p \in Procs |-> "new"]
    /\ files_to_process = [p \in Procs |-> <<>>]
    /\ idx = [p \in Procs |-> 0]
    /\ cur = [p \in Procs |-> NoCur]
    /\ stats = [p \in Procs |-> EmptyStats]
    /\ result = [p \in Procs |-> NoResult]
    /\ orphans = [p \in Procs |-> {}]
    /\ deleted = [p \in Procs |-> 0]
    /\ runs = 0
    /\ faults = 0
    /\ api_adds = 0
    /\ api_result = "none"
    /\ times_processed = [n \in Names |-> 0]
    /\ handled = [p \in Procs |-> <<>>]
    /\ clean_seen = [p \in Procs |-> NoCleanSeen]
    /\ exit_code = [p \in Procs |-> Running]
    /\ config = [p \in Procs |-> NoConfig]
    /\ call = NoCall
    /\ added = {}

(***************************************************************************)
(* FileProcessor.__init__                                                  *)
(***************************************************************************)
Construct(p) ==
    /\ pc[p] = "new"
    \* lines 65-66: ValueError when the source directory does not exist
    /\ source_dir_exists
    /\ \E bs \in 1..MaxBatch, dry \in BOOLEAN, hash \in BOOLEAN,
          rec \in BOOLEAN, pats \in PatternLists :
          /\ cfg' = [cfg EXCEPT ![p] =
                       [batch_size |-> bs, dry_run |-> dry, compute_hash |-> hash,
                        exclude_patterns |-> pats, recursive |-> rec]]
          \* target_dir.mkdir(parents=True, exist_ok=True) unless dry_run
          /\ target_dir_exists' = IF dry THEN target_dir_exists ELSE TRUE
    /\ pc' = [pc EXCEPT ![p] = "idle"]
    /\ UNCHANGED <<source, target, processed_files, errors, now, locals, result,
                   runs, faults, api_adds, api_result, times_processed, handled, clean_seen,
                   source_dir_exists, exit_code, config,
                   call, added>>

(***************************************************************************)
(* FileProcessor.process_batch                                             *)
(***************************************************************************)
\* the file the loop body is working on
CurFile(p) == files_to_process[p][idx[p]]
CurName(p) == CurFile(p).name

\* what the store and the target directory hold, by name
RecordedNames(table) == {table[i].filename : i \in DOMAIN table}
PresentNames(tgt) == {n \in Names : tgt[n] # NoFile}

\* the entry of handled for the current file, once its outcome is known
Entry(p, seen_recorded, seen_present, outcome) ==
    [file |-> CurFile(p), env |-> cur[p].env, seen_recorded |-> seen_recorded,
     seen_present |-> seen_present, outcome |-> outcome]

\* lines 196-232: list the source, filter, select; early returns included
SelectBatch(p) ==
    /\ pc[p] = "idle"
    /\ runs < MaxRuns
    /\ runs' = runs + 1
    /\ \E discovery \in Orderings(Globbed(source, cfg[p].recursive)) :
         LET source_files == get_source_files(discovery, cfg[p].exclude_patterns)
             filenames == [i \in DOMAIN source_files |-> source_files[i].name]
             unprocessed_names == get_unprocessed_files(processed_files, filenames)
             sel == IF source_files = <<>> THEN <<>>
                    ELSE SelectFiles(source_files, unprocessed_names,
                                     cfg[p].batch_size, <<>>)
         IN  IF sel = <<>>
             THEN /\ result' = [result EXCEPT ![p] =
                                  [kind |-> "batch", stats |-> EmptyStats, deleted |-> 0]]
                  /\ files_to_process' = [files_to_process EXCEPT ![p] = <<>>]
                  /\ idx' = [idx EXCEPT ![p] = 0]
                  /\ UNCHANGED pc
             ELSE /\ files_to_process' = [files_to_process EXCEPT ![p] = sel]
                  /\ idx' = [idx EXCEPT ![p] = 1]
                  /\ pc' = [pc EXCEPT ![p] = "file"]
                  /\ result' = [result EXCEPT ![p] = NoResult]
    /\ stats' = [stats EXCEPT ![p] = EmptyStats]
    /\ cur' = [cur EXCEPT ![p] = NoCur]
    /\ handled' = [handled EXCEPT ![p] = <<>>]
    /\ UNCHANGED <<world, cfg, orphans, deleted, faults, api_adds, api_result, times_processed, clean_seen,
                   source_dir_exists, exit_code, config,
                   call, added>>

\* mutant of NextFile: the store is not asked again before the copy
NextFileNoRecheck(p) ==
    /\ pc[p] = "file"
    /\ idx[p] <= Len(files_to_process[p])
    /\ IF source[CurFile(p)] = NoFile
       THEN /\ pc' = [pc EXCEPT ![p] = "raised"]
            /\ UNCHANGED cur
       ELSE /\ cur' = [cur EXCEPT ![p] =
                         [NoCur EXCEPT !.file_size = source[CurFile(p)].size,
                                       !.seen_recorded = RecordedNames(processed_files),
                                       !.seen_present = PresentNames(target)]]
            /\ pc' = [pc EXCEPT ![p] = "copy"]
    /\ UNCHANGED <<world, cfg, files_to_process, result, orphans, deleted, stats,
                   idx, handled, runs, faults, api_adds, api_result,
                   times_processed, clean_seen, source_dir_exists, exit_code,
                   config, call, added>>

\* mutant of NextFile: a file found recorded at the re-check is counted as
\* processed instead of skipped
NextFileCountsSkipAsProcessed(p) ==
    /\ pc[p] = "file"
    /\ idx[p] <= Len(files_to_process[p])
    /\ IF source[CurFile(p)] = NoFile
       THEN /\ pc' = [pc EXCEPT ![p] = "raised"]
            /\ UNCHANGED <<stats, idx, cur, handled>>
       ELSE IF is_file_processed(processed_files, CurName(p))
       THEN /\ stats' = [stats EXCEPT ![p].processed = @ + 1,
                                      ![p].files_processed = Append(@, CurName(p))]
            /\ idx' = [idx EXCEPT ![p] = @ + 1]
            /\ cur' = [cur EXCEPT ![p] = NoCur]
            /\ handled' = [handled EXCEPT ![p] =
                             Append(@, Entry(p, RecordedNames(processed_files),
                                             PresentNames(target), "processed"))]
            /\ UNCHANGED pc
       ELSE /\ cur' = [cur EXCEPT ![p] =
                         [NoCur EXCEPT !.file_size = source[CurFile(p)].size,
                                       !.seen_recorded = RecordedNames(processed_files),
                                       !.seen_present = PresentNames(target)]]
            /\ pc' = [pc EXCEPT ![p] = "copy"]
            /\ UNCHANGED <<stats, idx, handled>>
    /\ UNCHANGED <<world, cfg, files_to_process, result, orphans, deleted,
                   runs, faults, api_adds, api_result, times_processed, clean_seen,
                   source_dir_exists, exit_code, config,
                   call, added>>

\* lines 235-250: next file of the batch: stat, re-check in the store
NextFile(p) ==
    /\ pc[p] = "file"
    /\ idx[p] <= Len(files_to_process[p])
    /\ IF source[CurFile(p)] = NoFile
       THEN \* file_path.stat() raises: process_batch ends with the exception
            /\ pc' = [pc EXCEPT ![p] = "raised"]
            /\ UNCHANGED <<stats, idx, cur, handled>>
       ELSE IF is_file_processed(processed_files, CurName(p))
       THEN /\ stats' = [stats EXCEPT ![p].skipped = @ + 1,
                                      ![p].files_skipped = Append(@, CurName(p))]
            /\ idx' = [idx EXCEPT ![p] = @ + 1]
            /\ cur' = [cur EXCEPT ![p] = NoCur]
            /\ handled' = [handled EXCEPT ![p] =
                             Append(@, Entry(p, RecordedNames(processed_files),
                                             PresentNames(target), "skipped"))]
            /\ UNCHANGED pc
       ELSE /\ cur' = [cur EXCEPT ![p] =
                         [NoCur EXCEPT !.file_size = source[CurFile(p)].size,
                                       !.seen_recorded = RecordedNames(processed_files),
                                       !.seen_present = PresentNames(target)]]
            /\ pc' = [pc EXCEPT ![p] = "copy"]
            /\ UNCHANGED <<stats, idx, handled>>
    /\ UNCHANGED <<world, cfg, files_to_process, result, orphans, deleted,
                   runs, faults, api_adds, api_result, times_processed, clean_seen,
                   source_dir_exists, exit_code, config,
                   call, added>>

\* mutant of CopyCheck: dry_run is not tested, the copy goes ahead
CopyCheckNoDryRun(p) ==
    /\ pc[p] = "copy"
    /\ IF target[CurName(p)] # NoFile
       THEN /\ cur' = [cur EXCEPT ![p].error_msg = "File already exists in target"]
            /\ pc' = [pc EXCEPT ![p] = "copy_failed"]
       ELSE /\ pc' = [pc EXCEPT ![p] = "copy2"]
            /\ UNCHANGED cur
    /\ UNCHANGED <<world, cfg, files_to_process, idx, stats, result, orphans,
                   deleted, runs, faults, api_adds, api_result, times_processed, handled, clean_seen,
                   source_dir_exists, exit_code, config,
                   call, added>>

\* mutant of CopyCheck: an existing target is not refused
CopyCheckOverwrite(p) ==
    /\ pc[p] = "copy"
    /\ pc' = [pc EXCEPT ![p] = IF cfg[p].dry_run THEN "hash" ELSE "copy2"]
    /\ UNCHANGED <<world, cfg, files_to_process, idx, cur, stats, result, orphans,
                   deleted, runs, faults, api_adds, api_result, times_processed, handled, clean_seen,
                   source_dir_exists, exit_code, config,
                   call, added>>

\* mutant of CopyCheck: dry_run is tested before the target's existence
CopyCheckDryRunFirst(p) ==
    /\ pc[p] = "copy"
    /\ IF cfg[p].dry_run
       THEN /\ pc' = [pc EXCEPT ![p] = "hash"]
            /\ UNCHANGED cur
       ELSE IF target[CurName(p)] # NoFile
       THEN /\ cur' = [cur EXCEPT ![p].error_msg = "File already exists in target"]
            /\ pc' = [pc EXCEPT ![p] = "copy_failed"]
       ELSE /\ pc' = [pc EXCEPT ![p] = "copy2"]
            /\ UNCHANGED cur
    /\ UNCHANGED <<world, cfg, files_to_process, idx, stats, result, orphans,
                   deleted, runs, faults, api_adds, api_result, times_processed, handled, clean_seen,
                   source_dir_exists, exit_code, config,
                   call, added>>

\* _copy_file lines 158-162: refuse an existing target; dry-run stops here
CopyCheck(p) ==
    /\ pc[p] = "copy"
    /\ IF target[CurName(p)] # NoFile
       THEN /\ cur' = [cur EXCEPT ![p].error_msg = "File already exists in target"]
            /\ pc' = [pc EXCEPT ![p] = "copy_failed"]
       ELSE /\ pc' = [pc EXCEPT ![p] = IF cfg[p].dry_run THEN "hash" ELSE "copy2"]
            /\ UNCHANGED cur
    /\ UNCHANGED <<world, cfg, files_to_process, idx, stats, result, orphans,
                   deleted, runs, faults, api_adds, api_result, times_processed, handled, clean_seen,
                   source_dir_exists, exit_code, config,
                   call, added>>

\* _copy_file lines 164-167: mkdir of the parent and shutil.copy2 succeed
CopyWrite(p) ==
    /\ pc[p] = "copy2"
    /\ IF source[CurFile(p)] = NoFile
       THEN \* copy2 raises FileNotFoundError, caught as OSError
            /\ cur' = [cur EXCEPT ![p].error_msg = "System error"]
            /\ pc' = [pc EXCEPT ![p] = "copy_failed"]
            /\ UNCHANGED target
       ELSE /\ target' = [target EXCEPT ![CurName(p)] = source[CurFile(p)]]
            /\ pc' = [pc EXCEPT ![p] = "verify"]
            /\ UNCHANGED cur
    /\ target_dir_exists' = TRUE
    /\ UNCHANGED <<source, processed_files, errors, now, cfg, files_to_process,
                   idx, stats, result, orphans, deleted, runs, faults,
                   api_adds, api_result, times_processed, handled, clean_seen,
                   source_dir_exists, exit_code, config,
                   call, added>>

\* shutil.copy2 misbehaves: it returns with fewer bytes written ("short"),
\* or raises before writing ("raise") or after a partial write ("partial")
CopyWriteFault(p) ==
    /\ pc[p] = "copy2"
    /\ source[CurFile(p)] # NoFile
    /\ faults < MaxFaults
    /\ faults' = faults + 1
    /\ \E outcome \in {"short", "raise", "partial"} :
       \E k \in 0..(source[CurFile(p)].size - 1) :
         /\ target' = IF outcome = "raise" THEN target
                      ELSE [target EXCEPT ![CurName(p)] =
                              [size |-> k, data |-> source[CurFile(p)].data]]
         /\ IF outcome = "short"
            THEN /\ pc' = [pc EXCEPT ![p] = "verify"]
                 /\ cur' = [cur EXCEPT ![p].env = outcome]
            ELSE /\ cur' = [cur EXCEPT ![p].error_msg = "System error",
                                       ![p].env = outcome]
                 /\ pc' = [pc EXCEPT ![p] = "copy_failed"]
    /\ target_dir_exists' = TRUE
    /\ UNCHANGED <<source, processed_files, errors, now, cfg, files_to_process,
                   idx, stats, result, orphans, deleted, runs, api_adds, api_result, times_processed, handled, clean_seen,
                   source_dir_exists, exit_code, config,
                   call, added>>

\* mutant of CopyVerify: the sizes of source and target are not compared
CopyVerifyNoSizeCheck(p) ==
    /\ pc[p] = "verify"
    /\ IF target[CurName(p)] = NoFile
       THEN /\ cur' = [cur EXCEPT ![p].error_msg = "Copy failed (file not created)"]
            /\ pc' = [pc EXCEPT ![p] = "copy_failed"]
       ELSE /\ pc' = [pc EXCEPT ![p] = "hash"]
            /\ UNCHANGED cur
    /\ UNCHANGED <<world, cfg, files_to_process, idx, stats, result, orphans,
                   deleted, runs, faults, api_adds, api_result, times_processed,
                   handled, clean_seen, source_dir_exists, exit_code, config,
                   call, added>>

\* _copy_file lines 169-180: the target exists and has the source's size
CopyVerify(p) ==
    /\ pc[p] = "verify"
    /\ IF target[CurName(p)] = NoFile
       THEN /\ cur' = [cur EXCEPT ![p].error_msg = "Copy failed (file not created)"]
            /\ pc' = [pc EXCEPT ![p] = "copy_failed"]
            /\ UNCHANGED target
       ELSE IF source[CurFile(p)] = NoFile
       THEN /\ cur' = [cur EXCEPT ![p].error_msg = "System error"]
            /\ pc' = [pc EXCEPT ![p] = "copy_failed"]
            /\ UNCHANGED target
       ELSE IF source[CurFile(p)].size # target[CurName(p)].size
       THEN \* target.unlink(): delete corrupted copy
            /\ target' = [target EXCEPT ![CurName(p)] = NoFile]
            /\ cur' = [cur EXCEPT ![p].error_msg = "Incorrect size after copy"]
            /\ pc' = [pc EXCEPT ![p] = "copy_failed"]
       ELSE /\ pc' = [pc EXCEPT ![p] = "hash"]
            /\ UNCHANGED <<target, cur>>
    /\ UNCHANGED <<source, target_dir_exists, processed_files, errors, now, cfg,
                   files_to_process, idx, stats, result, orphans, deleted,
                   runs, faults, api_adds, api_result, times_processed, handled, clean_seen,
                   source_dir_exists, exit_code, config,
                   call, added>>

\* mutant of CopyError: the failure is counted but not logged to the store
CopyErrorUnlogged(p) ==
    /\ pc[p] = "copy_failed"
    /\ stats' = [stats EXCEPT ![p].errors = @ + 1,
                              ![p].files_errors =
                                  Append(@, [file |-> CurName(p), error |-> cur[p].error_msg])]
    /\ idx' = [idx EXCEPT ![p] = @ + 1]
    /\ cur' = [cur EXCEPT ![p] = NoCur]
    /\ handled' = [handled EXCEPT ![p] =
                     Append(@, Entry(p, cur[p].seen_recorded, cur[p].seen_present,
                                     "error"))]
    /\ pc' = [pc EXCEPT ![p] = "file"]
    /\ UNCHANGED <<world, cfg, files_to_process, result, orphans, deleted, runs,
                   faults, api_adds, api_result, times_processed, clean_seen,
                   source_dir_exists, exit_code, config,
                   call, added>>

\* mutant of CopyError: the loop is left (break) instead of continued
CopyErrorBreaks(p) ==
    /\ pc[p] = "copy_failed"
    /\ errors' = IF cfg[p].dry_run THEN errors
                 ELSE log_error(errors, now, CurName(p), "COPY_ERROR", cur[p].error_msg)
    /\ stats' = [stats EXCEPT ![p].errors = @ + 1,
                              ![p].files_errors =
                                  Append(@, [file |-> CurName(p), error |-> cur[p].error_msg])]
    /\ idx' = [idx EXCEPT ![p] = Len(files_to_process[p]) + 1]
    /\ cur' = [cur EXCEPT ![p] = NoCur]
    /\ handled' = [handled EXCEPT ![p] =
                     Append(@, Entry(p, cur[p].seen_recorded, cur[p].seen_present,
                                     "error"))]
    /\ pc' = [pc EXCEPT ![p] = "file"]
    /\ UNCHANGED <<source, target_dir_exists, target, processed_files, now, cfg,
                   files_to_process, result, orphans, deleted, runs, faults,
                   api_adds, api_result, times_processed, clean_seen,
                   source_dir_exists, exit_code, config,
                   call, added>>

\* lines 255-265: a failed copy is logged (not in dry-run) and counted
CopyError(p) ==
    /\ pc[p] = "copy_failed"
    /\ errors' = IF cfg[p].dry_run THEN errors
                 ELSE log_error(errors, now, CurName(p), "COPY_ERROR", cur[p].error_msg)
    /\ stats' = [stats EXCEPT ![p].errors = @ + 1,
                              ![p].files_errors =
                                  Append(@, [file |-> CurName(p), error |-> cur[p].error_msg])]
    /\ idx' = [idx EXCEPT ![p] = @ + 1]
    /\ cur' = [cur EXCEPT ![p] = NoCur]
    /\ handled' = [handled EXCEPT ![p] =
                     Append(@, Entry(p, cur[p].seen_recorded, cur[p].seen_present,
                                     "error"))]
    /\ pc' = [pc EXCEPT ![p] = "file"]
    /\ UNCHANGED <<source, target_dir_exists, target, processed_files, now, cfg,
                   files_to_process, result, orphans, deleted, runs, faults,
                   api_adds, api_result, times_processed, clean_seen,
                   source_dir_exists, exit_code, config,
                   call, added>>

\* lines 267-274: hash of the copied file, when requested and not dry-run
ComputeHash(p) ==
    /\ pc[p] = "hash"
    /\ cur' = [cur EXCEPT ![p].file_hash =
                 IF cfg[p].compute_hash /\ ~cfg[p].dry_run /\ target[CurName(p)] # NoFile
                 THEN target[CurName(p)].data ELSE None]
    /\ pc' = [pc EXCEPT ![p] = "register"]
    /\ UNCHANGED <<world, cfg, files_to_process, idx, stats, result, orphans,
                   deleted, runs, faults, api_adds, api_result, times_processed, handled, clean_seen,
                   source_dir_exists, exit_code, config,
                   call, added>>

\* mutant of HashFails: a hash that cannot be computed fails the file
HashFailsAsError(p) ==
    /\ pc[p] = "hash"
    /\ cfg[p].compute_hash /\ ~cfg[p].dry_run
    /\ faults < MaxFaults
    /\ faults' = faults + 1
    /\ cur' = [cur EXCEPT ![p].error_msg = "hash error"]
    /\ pc' = [pc EXCEPT ![p] = "copy_failed"]
    /\ UNCHANGED <<world, cfg, files_to_process, idx, stats, result, orphans,
                   deleted, runs, api_adds, api_result, times_processed, handled,
                   clean_seen, source_dir_exists, exit_code, config,
                   call, added>>

\* lines 273-274: _compute_file_hash raises; warning only, no hash
HashFails(p) ==
    /\ pc[p] = "hash"
    /\ cfg[p].compute_hash /\ ~cfg[p].dry_run
    /\ faults < MaxFaults
    /\ faults' = faults + 1
    /\ cur' = [cur EXCEPT ![p].file_hash = None]
    /\ pc' = [pc EXCEPT ![p] = "register"]
    /\ UNCHANGED <<world, cfg, files_to_process, idx, stats, result, orphans,
                   deleted, runs, api_adds, api_result, times_processed, handled, clean_seen,
                   source_dir_exists, exit_code, config,
                   call, added>>

\* mutant of Success: total_size is assigned the file's size, not raised by it
SuccessSizeAssigned(p) ==
    /\ stats' = [stats EXCEPT ![p].processed = @ + 1,
                              ![p].total_size = cur[p].file_size,
                              ![p].files_processed = Append(@, CurName(p))]
    /\ idx' = [idx EXCEPT ![p] = @ + 1]
    /\ cur' = [cur EXCEPT ![p] = NoCur]
    /\ handled' = [handled EXCEPT ![p] =
                     Append(@, Entry(p, cur[p].seen_recorded, cur[p].seen_present,
                                     "processed"))]
    /\ pc' = [pc EXCEPT ![p] = "file"]

\* lines 301-305: the file is counted as processed
Success(p) ==
    /\ stats' = [stats EXCEPT ![p].processed = @ + 1,
                              ![p].total_size = @ + cur[p].file_size,
                              ![p].files_processed = Append(@, CurName(p))]
    /\ idx' = [idx EXCEPT ![p] = @ + 1]
    /\ cur' = [cur EXCEPT ![p] = NoCur]
    /\ handled' = [handled EXCEPT ![p] =
                     Append(@, Entry(p, cur[p].seen_recorded, cur[p].seen_present,
                                     "processed"))]
    /\ pc' = [pc EXCEPT ![p] = "file"]

\* lines 276-287 and 301-305: the record is inserted (nothing in dry-run);
\* an INSERT rejected by the UNIQUE constraint raises IntegrityError
Register(p) ==
    /\ pc[p] = "register"
    /\ IF cfg[p].dry_run
       THEN Success(p) /\ UNCHANGED <<processed_files, now, times_processed, added>>
       ELSE IF UniqueViolated(processed_files, CurName(p))
       THEN /\ cur' = [cur EXCEPT ![p].error_msg = "UNIQUE constraint failed"]
            /\ pc' = [pc EXCEPT ![p] = "rollback"]
            /\ UNCHANGED <<processed_files, now, stats, idx, times_processed, handled,
                           added>>
       ELSE /\ processed_files' =
                 add_processed_file(processed_files, CurName(p), CurFile(p),
                                    [dir |-> "target", name |-> CurName(p)],
                                    cur[p].file_size, now, cur[p].file_hash)
            /\ now' = now + 1
            /\ times_processed' = [times_processed EXCEPT ![CurName(p)] = @ + 1]
            /\ added' = added \cup {CurName(p)}
            /\ Success(p)
    /\ UNCHANGED <<source, target_dir_exists, target, errors, cfg, files_to_process,
                   result, orphans, deleted, runs, faults, api_adds, api_result,
                   clean_seen,
                   source_dir_exists, exit_code, config,
                   call>>

\* line 288: add_processed_file raises for a reason of the store itself
RegisterFails(p) ==
    /\ pc[p] = "register"
    /\ ~cfg[p].dry_run
    /\ faults < MaxFaults
    /\ faults' = faults + 1
    /\ cur' = [cur EXCEPT ![p].error_msg = "database error",
                          ![p].env = "insert_fail"]
    /\ pc' = [pc EXCEPT ![p] = "rollback"]
    /\ UNCHANGED <<world, cfg, files_to_process, idx, stats, result, orphans,
                   deleted, runs, api_adds, api_result, times_processed, handled, clean_seen,
                   source_dir_exists, exit_code, config,
                   call, added>>

\* mutant of Rollback: the rows of the file name are deleted with the copy
RollbackDeletesRecord(p) ==
    /\ pc[p] = "rollback"
    /\ target' = [target EXCEPT ![CurName(p)] = NoFile]
    /\ processed_files' = SelectSeq(processed_files,
                                    LAMBDA r : r.filename # CurName(p))
    /\ pc' = [pc EXCEPT ![p] = "log_db_error"]
    /\ UNCHANGED <<source, target_dir_exists, errors, now, cfg, locals, result,
                   runs, faults, api_adds, api_result, times_processed, handled,
                   clean_seen,
                   source_dir_exists, exit_code, config,
                   call, added>>

\* mutant of Rollback: the copied file is left in the target
RollbackKeepsFile(p) ==
    /\ pc[p] = "rollback"
    /\ pc' = [pc EXCEPT ![p] = "log_db_error"]
    /\ UNCHANGED <<world, cfg, locals, result, runs, faults, api_adds, api_result,
                   times_processed, handled, clean_seen,
                   source_dir_exists, exit_code, config,
                   call, added>>

\* lines 291-293: the copied file is deleted
Rollback(p) ==
    /\ pc[p] = "rollback"
    /\ target' = IF target[CurName(p)] # NoFile
                 THEN [target EXCEPT ![CurName(p)] = NoFile] ELSE target
    /\ pc' = [pc EXCEPT ![p] = "log_db_error"]
    /\ UNCHANGED <<source, target_dir_exists, processed_files, errors, now, cfg,
                   locals, result, runs, faults, api_adds, api_result, times_processed, handled, clean_seen,
                   source_dir_exists, exit_code, config,
                   call, added>>

\* lines 295-299: the store failure is logged and counted
LogDbError(p) ==
    /\ pc[p] = "log_db_error"
    /\ errors' = log_error(errors, now, CurName(p), "DB_ERROR", cur[p].error_msg)
    /\ stats' = [stats EXCEPT ![p].errors = @ + 1,
                              ![p].files_errors =
                                  Append(@, [file |-> CurName(p), error |-> cur[p].error_msg])]
    /\ idx' = [idx EXCEPT ![p] = @ + 1]
    /\ cur' = [cur EXCEPT ![p] = NoCur]
    /\ handled' = [handled EXCEPT ![p] =
                     Append(@, Entry(p, cur[p].seen_recorded, cur[p].seen_present,
                                     "error"))]
    /\ pc' = [pc EXCEPT ![p] = "file"]
    /\ UNCHANGED <<source, target_dir_exists, target, processed_files, now, cfg,
                   files_to_process, result, orphans, deleted, runs, faults,
                   api_adds, api_result, times_processed, clean_seen,
                   source_dir_exists, exit_code, config,
                   call, added>>

\* mutant of LogDbErrorFails: log_error is called, and fails, before the
\* copied file is deleted
LogDbErrorFailsBeforeRollback(p) ==
    /\ pc[p] = "rollback"
    /\ pc' = [pc EXCEPT ![p] = "raised"]
    /\ UNCHANGED <<world, cfg, locals, result, runs, faults, api_adds, api_result,
                   times_processed, handled, clean_seen,
                   source_dir_exists, exit_code, config,
                   call, added>>

\* line 295: log_error raises (the store is unavailable); the call is inside
\* the except block, so process_batch ends with the exception
LogDbErrorFails(p) ==
    /\ pc[p] = "log_db_error"
    /\ pc' = [pc EXCEPT ![p] = "raised"]
    /\ UNCHANGED <<world, cfg, locals, result, runs, faults, api_adds, api_result,
                   times_processed, handled, clean_seen,
                   source_dir_exists, exit_code, config,
                   call, added>>

\* lines 307-322: the loop is over: duration is set, stats are returned
ReturnBatch(p) ==
    /\ pc[p] = "file"
    /\ idx[p] > Len(files_to_process[p])
    /\ stats' = [stats EXCEPT ![p].duration = "set"]
    /\ result' = [result EXCEPT ![p] =
                    [kind |-> "batch", stats |-> stats'[p], deleted |-> 0]]
    /\ pc' = [pc EXCEPT ![p] = "idle"]
    /\ UNCHANGED <<world, cfg, files_to_process, idx, cur, orphans, deleted,
                   runs, faults, api_adds, api_result, times_processed, handled, clean_seen,
                   source_dir_exists, exit_code, config,
                   call, added>>

\* lines 235-305 as a function: what one pass of the loop body does to a
\* world w (the recorded names and the names present in the target) for one
\* file, when the environment answers env to its copy and insert
LoopBody(w, file, env, dry_run) ==
    LET n == file.name
        same(o) == [outcome |-> o, recorded |-> w.recorded, present |-> w.present]
    IN  IF n \in w.recorded THEN same("skipped")
        ELSE IF n \in w.present THEN same("error")
        ELSE IF dry_run THEN same("processed")
        ELSE CASE env = "ok" ->
                    [outcome |-> "processed", recorded |-> w.recorded \cup {n},
                     present |-> w.present \cup {n}]
               [] env = "partial" ->
                    [outcome |-> "error", recorded |-> w.recorded,
                     present |-> w.present \cup {n}]
               [] env \in {"raise", "short", "insert_fail"} -> same("error")

\* the world after the loop body has gone through lines 252-305 without failure
LoopBodySucceeds(w, file, dry_run) ==
    IF dry_run THEN [recorded |-> w.recorded, present |-> w.present]
    ELSE [recorded |-> w.recorded \cup {file.name},
          present |-> w.present \cup {file.name}]

\* the outcome of file number k when the loop runs on from file number j in
\* world w, over the files and the environment's answers listed in hs
RECURSIVE LoopOutcome(_, _, _, _, _)
LoopOutcome(w, hs, j, k, dry_run) ==
    LET r == LoopBody(w, hs[j].file, hs[j].env, dry_run)
    IN  IF j >= k THEN r.outcome
        ELSE LoopOutcome([recorded |-> r.recorded, present |-> r.present],
                         hs, j + 1, k, dry_run)

\* mutant of LoopRun: the loop is left at the first skipped file
RECURSIVE LoopRunBreaksOnSkip(_, _, _, _, _)
LoopRunBreaksOnSkip(table, present, sel, j, n) ==
    IF j > Len(sel)
    THEN [processed |-> n, table |-> table, present |-> present]
    ELSE LET r == LoopBody([recorded |-> RecordedNames(table), present |-> present],
                           sel[j], "ok", FALSE)
         IN  IF r.outcome = "skipped"
             THEN [processed |-> n, table |-> table, present |-> present]
             ELSE LoopRunBreaksOnSkip(
                      IF r.outcome = "processed"
                      THEN add_processed_file(table, sel[j].name, sel[j],
                               [dir |-> "target", name |-> sel[j].name], 0, 0, None)
                      ELSE table,
                      r.present, sel, j + 1,
                      IF r.outcome = "processed" THEN n + 1 ELSE n)

\* lines 235-305 as a function: the real-mode loop over the selected files
\* from number j on, nothing failing in the environment: the processed
\* count, the record table and the names present in the target at the end
RECURSIVE LoopRun(_, _, _, _, _)
LoopRun(table, present, sel, j, n) ==
    IF j > Len(sel)
    THEN [processed |-> n, table |-> table, present |-> present]
    ELSE LET r == LoopBody([recorded |-> RecordedNames(table), present |-> present],
                           sel[j], "ok", FALSE)
         IN  LoopRun(IF r.outcome = "processed"
                     THEN add_processed_file(table, sel[j].name, sel[j],
                              [dir |-> "target", name |-> sel[j].name], 0, 0, None)
                     ELSE table,
                     r.present, sel, j + 1,
                     IF r.outcome = "processed" THEN n + 1 ELSE n)

\* process_batch as a function, in real mode with nothing failing in the
\* environment: filter, selection (lines 207-227), then the loop
process_batch(table, present, source_files, batch_size) ==
    LET filenames == [i \in DOMAIN source_files |-> source_files[i].name]
        unprocessed_names == get_unprocessed_files(table, filenames)
        sel == IF source_files = <<>> THEN <<>>
               ELSE SelectFiles(source_files, unprocessed_names, batch_size, <<>>)
    IN  LoopRun(table, present, sel, 1, 0)

\* process_batch called again and again until a call returns processed == 0:
\* the sum of the processed counts
RECURSIVE TotalProcessed(_, _, _, _)
TotalProcessed(table, present, source_files, batch_size) ==
    LET r == process_batch(table, present, source_files, batch_size)
    IN  IF r.processed = 0 THEN 0
        ELSE r.processed
             + TotalProcessed(r.table, r.present, source_files, batch_size)

(***************************************************************************)
(* FileProcessor.clean_target_orphans                                      *)
(***************************************************************************)
\* verify_target_files: names of the regular files in the target directory
verify_target_files(dir_exists, tgt) ==
    IF ~dir_exists THEN {} ELSE {n \in Names : tgt[n] # NoFile}

\* mutant of CleanStart: every target file is taken for an orphan
CleanStartAll(p) ==
    /\ pc[p] = "idle"
    /\ runs < MaxRuns
    /\ runs' = runs + 1
    /\ LET orph == verify_target_files(target_dir_exists, target)
       IN  IF orph = {}
           THEN /\ result' = [result EXCEPT ![p] =
                                [kind |-> "clean", stats |-> EmptyStats, deleted |-> 0]]
                /\ UNCHANGED <<pc, orphans, clean_seen,
                   source_dir_exists, exit_code, config,
                   call, added>>
           ELSE /\ orphans' = [orphans EXCEPT ![p] = orph]
                /\ pc' = [pc EXCEPT ![p] = "clean"]
                /\ result' = [result EXCEPT ![p] = NoResult]
                /\ clean_seen' = [clean_seen EXCEPT ![p] =
                                    [before |-> target, failed |-> {}]]
    /\ deleted' = [deleted EXCEPT ![p] = 0]
    /\ UNCHANGED <<world, cfg, files_to_process, idx, cur, stats, faults,
                   api_adds, api_result, times_processed, handled,
                   source_dir_exists, exit_code, config,
                   call, added>>

\* lines 345-360: list the target, find the names without record
CleanStart(p) ==
    /\ pc[p] = "idle"
    /\ runs < MaxRuns
    /\ runs' = runs + 1
    /\ LET target_files == verify_target_files(target_dir_exists, target)
           processed == {f \in target_files : is_file_processed(processed_files, f)}
           orph == target_files \ processed
       IN  IF orph = {}
           THEN /\ result' = [result EXCEPT ![p] =
                                [kind |-> "clean", stats |-> EmptyStats, deleted |-> 0]]
                /\ UNCHANGED <<pc, orphans, clean_seen,
                   source_dir_exists, exit_code, config,
                   call, added>>
           ELSE /\ orphans' = [orphans EXCEPT ![p] = orph]
                /\ pc' = [pc EXCEPT ![p] = "clean"]
                /\ result' = [result EXCEPT ![p] = NoResult]
                /\ clean_seen' = [clean_seen EXCEPT ![p] =
                                    [before |-> target, failed |-> {}]]
    /\ deleted' = [deleted EXCEPT ![p] = 0]
    /\ UNCHANGED <<world, cfg, files_to_process, idx, cur, stats, faults,
                   api_adds, api_result, times_processed, handled,
                   source_dir_exists, exit_code, config,
                   call, added>>

\* mutant of CleanDelete: dry-run neither deletes nor counts
CleanDeleteDryUncounted(p) ==
    /\ pc[p] = "clean"
    /\ \E filename \in orphans[p] :
         /\ orphans' = [orphans EXCEPT ![p] = @ \ {filename}]
         /\ IF cfg[p].dry_run \/ target[filename] = NoFile
            THEN UNCHANGED <<target, deleted>>
            ELSE /\ target' = [target EXCEPT ![filename] = NoFile]
                 /\ deleted' = [deleted EXCEPT ![p] = @ + 1]
    /\ UNCHANGED <<source, target_dir_exists, processed_files, errors, now, cfg,
                   pc, files_to_process, idx, cur, stats, result, runs, faults,
                   api_adds, api_result, times_processed, handled, clean_seen,
                   source_dir_exists, exit_code, config,
                   call, added>>

\* mutant of CleanDelete: the orphan is counted but left in place
CleanDeleteKeeps(p) ==
    /\ pc[p] = "clean"
    /\ \E filename \in orphans[p] :
         /\ orphans' = [orphans EXCEPT ![p] = @ \ {filename}]
         /\ deleted' = [deleted EXCEPT ![p] = @ + 1]
    /\ UNCHANGED <<source, target_dir_exists, target, processed_files, errors, now,
                   cfg, pc, files_to_process, idx, cur, stats, result, runs, faults,
                   api_adds, api_result, times_processed, handled, clean_seen,
                   source_dir_exists, exit_code, config,
                   call, added>>

\* lines 364-375: one orphan is deleted (or only counted in dry-run)
CleanDelete(p) ==
    /\ pc[p] = "clean"
    /\ \E filename \in orphans[p] :
         /\ orphans' = [orphans EXCEPT ![p] = @ \ {filename}]
         /\ IF cfg[p].dry_run
            THEN /\ deleted' = [deleted EXCEPT ![p] = @ + 1]
                 /\ UNCHANGED target
            ELSE IF target[filename] = NoFile
            THEN \* unlink raises FileNotFoundError: logged, not counted
                 UNCHANGED <<target, deleted>>
            ELSE /\ target' = [target EXCEPT ![filename] = NoFile]
                 /\ deleted' = [deleted EXCEPT ![p] = @ + 1]
    /\ UNCHANGED <<source, target_dir_exists, processed_files, errors, now, cfg,
                   pc, files_to_process, idx, cur, stats, result, runs, faults,
                   api_adds, api_result, times_processed, handled, clean_seen,
                   source_dir_exists, exit_code, config,
                   call, added>>

\* mutant of CleanDeleteFails: the exception of unlink is not caught in the
\* loop, the pass ends with the orphans left as they are
CleanDeleteFailsAborts(p) ==
    /\ pc[p] = "clean"
    /\ ~cfg[p].dry_run
    /\ faults < MaxFaults
    /\ faults' = faults + 1
    /\ \E filename \in orphans[p] :
         /\ target[filename] # NoFile
         /\ orphans' = [orphans EXCEPT ![p] = {}]
         /\ clean_seen' = [clean_seen EXCEPT ![p].failed = @ \cup {filename}]
    /\ UNCHANGED <<world, cfg, pc, files_to_process, idx, cur, stats, deleted,
                   result, runs, api_adds, api_result, times_processed, handled,
                   source_dir_exists, exit_code, config,
                   call, added>>

\* lines 371-372: unlink raises (permissions, I/O): logged, not counted
CleanDeleteFails(p) ==
    /\ pc[p] = "clean"
    /\ ~cfg[p].dry_run
    /\ faults < MaxFaults
    /\ faults' = faults + 1
    /\ \E filename \in orphans[p] :
         /\ target[filename] # NoFile
         /\ orphans' = [orphans EXCEPT ![p] = @ \ {filename}]
         /\ clean_seen' = [clean_seen EXCEPT ![p].failed = @ \cup {filename}]
    /\ UNCHANGED <<world, cfg, pc, files_to_process, idx, cur, stats, deleted,
                   result, runs, api_adds, api_result, times_processed, handled,
                   source_dir_exists, exit_code, config,
                   call, added>>

\* line 377: return deleted
CleanReturn(p) ==
    /\ pc[p] = "clean"
    /\ orphans[p] = {}
    /\ result' = [result EXCEPT ![p] =
                    [kind |-> "clean", stats |-> EmptyStats, deleted |-> deleted[p]]]
    /\ pc' = [pc EXCEPT ![p] = "idle"]
    /\ clean_seen' = [clean_seen EXCEPT ![p] = NoCleanSeen]
    /\ UNCHANGED <<world, cfg, locals, runs, faults, api_adds, api_result, times_processed, handled,
                   source_dir_exists, exit_code, config,
                   call, added>>

(***************************************************************************)
(* The process is terminated inside process_batch and started again        *)
(***************************************************************************)
\* the positions of process_batch after the selection
InBatch == {"file", "copy", "copy2", "verify", "copy_failed", "hash",
            "register", "rollback", "log_db_error"}

\* the process dies: its locals are lost, the store and the directories stay
\* as they are; a process killed inside shutil.copy2 may leave a part of the
\* file behind
Crash(p) ==
    /\ pc[p] \in InBatch
    /\ faults < MaxFaults
    /\ faults' = faults + 1
    /\ IF pc[p] = "copy2" /\ source[CurFile(p)] # NoFile
       THEN \E k \in 0..(source[CurFile(p)].size - 1) :
              target' \in {target,
                           [target EXCEPT ![CurName(p)] =
                              [size |-> k, data |-> source[CurFile(p)].data]]}
       ELSE UNCHANGED target
    /\ pc' = [pc EXCEPT ![p] = "crashed"]
    /\ files_to_process' = [files_to_process EXCEPT ![p] = <<>>]
    /\ idx' = [idx EXCEPT ![p] = 0]
    /\ cur' = [cur EXCEPT ![p] = NoCur]
    /\ stats' = [stats EXCEPT ![p] = EmptyStats]
    /\ result' = [result EXCEPT ![p] = NoResult]
    /\ handled' = [handled EXCEPT ![p] = <<>>]
    /\ runs' = 0
    /\ UNCHANGED <<source, target_dir_exists, processed_files, errors, now, cfg,
                   orphans, deleted, api_adds, api_result, times_processed,
                   clean_seen,
                   source_dir_exists, exit_code, config,
                   call, added>>

\* the process is started again with the same configuration and first runs
\* clean_target_orphans (lines 345-360)
RecoverStart(p) ==
    /\ pc[p] = "crashed"
    /\ LET target_files == verify_target_files(target_dir_exists, target)
           processed == {f \in target_files : is_file_processed(processed_files, f)}
           orph == target_files \ processed
       IN  IF orph = {}
           THEN /\ result' = [result EXCEPT ![p] =
                                [kind |-> "clean", stats |-> EmptyStats, deleted |-> 0]]
                /\ pc' = [pc EXCEPT ![p] = "idle"]
                /\ UNCHANGED <<orphans, clean_seen>>
           ELSE /\ orphans' = [orphans EXCEPT ![p] = orph]
                /\ pc' = [pc EXCEPT ![p] = "clean"]
                /\ result' = [result EXCEPT ![p] = NoResult]
                /\ clean_seen' = [clean_seen EXCEPT ![p] =
                                    [before |-> target, failed |-> {}]]
    /\ deleted' = [deleted EXCEPT ![p] = 0]
    /\ UNCHANGED <<world, cfg, files_to_process, idx, cur, stats, runs, faults,
                   api_adds, api_result, times_processed, handled,
                   source_dir_exists, exit_code, config,
                   call, added>>

(***************************************************************************)
(* A client of the store calls DatabaseManager.add_processed_file directly *)
(***************************************************************************)
ApiAdd(filename) ==
    /\ api_adds < MaxApiAdds
    /\ api_adds' = api_adds + 1
    /\ IF UniqueViolated(processed_files, filename)
       THEN /\ api_result' = "IntegrityError"
            /\ UNCHANGED <<processed_files, now, added>>
       ELSE /\ processed_files' =
                 add_processed_file(processed_files, filename,
                                    [dir |-> "api", name |-> filename],
                                    [dir |-> "target", name |-> filename],
                                    1, now, None)
            /\ now' = now + 1
            /\ api_result' = "ok"
            /\ added' = added \cup {filename}
    /\ UNCHANGED <<source, target_dir_exists, target, errors, cfg, pc, locals,
                   result, runs, faults, times_processed, handled, clean_seen,
                   source_dir_exists, exit_code, config,
                   call>>

(***************************************************************************)
(* Specifications                                                          *)
(***************************************************************************)
\* the steps of process_batch the code takes when the environment behaves
BatchStep(p) ==
    \/ SelectBatch(p)
    \/ NextFile(p)
    \/ CopyCheck(p)
    \/ CopyWrite(p)
    \/ CopyVerify(p)
    \/ CopyError(p)
    \/ ComputeHash(p)
    \/ Register(p)
    \/ Rollback(p)
    \/ LogDbError(p)
    \/ ReturnBatch(p)

\* the steps of process_batch at which the environment fails
BatchFault(p) ==
    \/ CopyWriteFault(p)
    \/ HashFails(p)
    \/ RegisterFails(p)

\* the steps of clean_target_orphans
CleanStep(p) ==
    \/ CleanStart(p)
    \/ CleanDelete(p)
    \/ CleanReturn(p)

\* the step of clean_target_orphans at which the environment fails
CleanFault(p) == CleanDeleteFails(p)

Step(p) ==
    Construct(p) \/ BatchStep(p) \/ BatchFault(p) \/ CleanStep(p) \/ CleanFault(p)

\* no call is in progress
Quiet == \A p \in Procs : pc[p] \in {"new", "idle"}

\* one processor, one call at a time; the store's client acts between calls
\* the store's client acts between the calls of the processor
ClientAdd == Quiet /\ \E f \in Names : ApiAdd(f)

\* one processor, one call at a time
Next == Step(1) \/ ClientAdd

Spec == Init /\ [][Next]_vars

(***************************************************************************)
(* clean_target_orphans on a target into which files are put by hand       *)
(***************************************************************************)
\* a file is written directly into the target directory, between the calls
DropIn ==
    /\ Quiet
    /\ target_dir_exists
    /\ \E n \in Names :
         /\ target[n] = NoFile
         /\ target' = [target EXCEPT ![n] = External]
    /\ UNCHANGED <<source, target_dir_exists, processed_files, errors, now, cfg,
                   pc, locals, result, runs, faults, api_adds, api_result,
                   times_processed, handled, clean_seen, source_dir_exists,
                   exit_code, config, call, added>>

NextClean ==
    \/ Construct(1)
    \/ CleanStep(1)
    \/ CleanFault(1)
    \/ DropIn
    \/ ClientAdd

\* one processor that only cleans the target
SpecClean == Init /\ [][NextClean]_vars

(***************************************************************************)
(* DatabaseManager.check_integrity                                         *)
(***************************************************************************)
\* what PRAGMA integrity_check may answer
IntegrityChecks == {"ok", "corrupt"}

\* mutant of check_integrity: the status is the one of the native check
check_integrity_native_only(table, integrity_check) ==
    LET duplicates == {f \in RecordedNames(table) :
                          Cardinality({i \in DOMAIN table : table[i].filename = f}) > 1}
    IN  [status |-> IF integrity_check = "ok" THEN "ok" ELSE "warning",
         integrity_check |-> integrity_check,
         duplicates |-> duplicates,
         duplicate_count |-> Cardinality(duplicates)]

\* the report: the names GROUP BY filename HAVING count > 1 finds, the answer
\* of the native check, and the status
check_integrity(table, integrity_check) ==
    LET duplicates == {f \in RecordedNames(table) :
                          Cardinality({i \in DOMAIN table : table[i].filename = f}) > 1}
    IN  [status |-> IF integrity_check = "ok" /\ duplicates = {}
                    THEN "ok" ELSE "warning",
         integrity_check |-> integrity_check,
         duplicates |-> duplicates,
         duplicate_count |-> Cardinality(duplicates)]

\* check_integrity is called between the calls of the processor
CheckIntegrity ==
    /\ Quiet
    /\ \E integrity_check \in IntegrityChecks :
         call' = [op |-> "check_integrity", integrity_check |-> integrity_check,
                  value |-> check_integrity(processed_files, integrity_check)]
    /\ UNCHANGED <<world, cfg, pc, locals, result, runs, faults, api_adds,
                   api_result, times_processed, handled, clean_seen,
                   source_dir_exists, exit_code, config, added>>

NextIntegrity == Next \/ CheckIntegrity

\* one processor, the store's client, and integrity checks between the calls
SpecIntegrity == Init /\ [][NextIntegrity]_vars

\* a source file of the selected batch whose turn has not come yet is
\* removed by somebody else while process_batch is running
RemoveSource(p) ==
    /\ pc[p] \notin {"new", "idle", "raised", "clean"}
    /\ \E j \in idx[p]..Len(files_to_process[p]) :
         /\ j > idx[p] \/ pc[p] = "file"
         /\ source[files_to_process[p][j]] # NoFile
         /\ source' = [source EXCEPT ![files_to_process[p][j]] = NoFile]
    /\ UNCHANGED <<target_dir_exists, target, processed_files, errors, now, cfg,
                   pc, locals, result, runs, faults, api_adds, api_result,
                   times_processed, handled, clean_seen,
                   source_dir_exists, exit_code, config,
                   call, added>>

\* one processor, one call at a time, on a source directory from which
\* files are removed during the call
NextVanish == Next \/ RemoveSource(1)

SpecVanish == Init /\ [][NextVanish]_vars

\* one processor, one call at a time, on a store that may be unavailable
\* when the failure of an insert is logged
NextLogFail == Next \/ LogDbErrorFails(1)

SpecLogFail == Init /\ [][NextLogFail]_vars

\* two real-mode processors, constructed with the same configuration, work
\* on the same source, target and store
InitConc ==
    /\ source = [p \in SourcePaths |-> Content(p)]
    /\ target_dir_exists = TRUE
    /\ target \in [Names -> {NoFile, External}]
    /\ \A n \in Names : target[n] # NoFile => n \in DropInNames
    /\ processed_files = <<>>
    /\ errors = <<>>
    /\ now = 1
    /\ \E bs \in 1..MaxBatch, rec \in BOOLEAN :
          cfg = [p \in Procs |->
                   [batch_size |-> bs, dry_run |-> FALSE, compute_hash |-> FALSE,
                    exclude_patterns |-> <<>>, recursive |-> rec]]
    /\ pc = [p \in Procs |-> "idle"]
    /\ files_to_process = [p \in Procs |-> <<>>]
    /\ idx = [p \in Procs |-> 0]
    /\ cur = [p \in Procs |-> NoCur]
    /\ stats = [p \in Procs |-> EmptyStats]
    /\ result = [p \in Procs |-> NoResult]
    /\ orphans = [p \in Procs |-> {}]
    /\ deleted = [p \in Procs |-> 0]
    /\ runs = 0
    /\ faults = 0
    /\ api_adds = 0
    /\ api_result = "none"
    /\ times_processed = [n \in Names |-> 0]
    /\ handled = [p \in Procs |-> <<>>]
    /\ clean_seen = [p \in Procs |-> NoCleanSeen]
    /\ source_dir_exists = TRUE
    /\ exit_code = [p \in Procs |-> Running]
    /\ config = [p \in Procs |-> NoConfig]
    /\ call = NoCall
    /\ added = {}

\* the store's client acts at any time
ClientAddAnytime == \E f \in Names : ApiAdd(f)

\* the calls of the two processors interleave step by step
NextConc ==
    \/ \E p \in Procs : BatchStep(p) \/ CopyWriteFault(p) \/ RegisterFails(p)
                          \/ CleanStep(p)
    \/ ClientAddAnytime

SpecConc == InitConc /\ [][NextConc]_vars

\* two real-mode processors each calling process_batch, their steps
\* interleaved; nothing fails and nobody else touches the store or the target
NextBatches == \E p \in Procs : BatchStep(p)

SpecBatches == InitConc /\ [][NextBatches]_vars

\* processor 1 calls process_batch while processor 2 calls
\* clean_target_orphans on the same target and store, their steps interleaved
NextReconcile == BatchStep(1) \/ RegisterFails(1) \/ CleanStep(2)

SpecReconcile == InitConc /\ [][NextReconcile]_vars

\* one real-mode processor, constructed, whose caller calls process_batch
\* again and again on an unchanging source; nobody else touches the store or
\* the target
InitRepeat ==
    /\ source \in [SourcePaths -> {NoFile} \cup {Content(p) : p \in SourcePaths}]
    /\ \A p \in SourcePaths : source[p] \in {NoFile, Content(p)}
    /\ target_dir_exists = TRUE
    /\ target \in [Names -> {NoFile, External}]
    /\ \A n \in Names : target[n] # NoFile => n \in DropInNames
    /\ processed_files = <<>>
    /\ errors = <<>>
    /\ now = 1
    /\ \E bs \in 1..MaxBatch, rec \in BOOLEAN, pats \in PatternLists :
          cfg = [p \in Procs |->
                   IF p = 1
                   THEN [batch_size |-> bs, dry_run |-> FALSE, compute_hash |-> FALSE,
                         exclude_patterns |-> pats, recursive |-> rec]
                   ELSE NoCfg]
    /\ pc = [p \in Procs |-> IF p = 1 THEN "idle" ELSE "new"]
    /\ files_to_process = [p \in Procs |-> <<>>]
    /\ idx = [p \in Procs |-> 0]
    /\ cur = [p \in Procs |-> NoCur]
    /\ stats = [p \in Procs |-> EmptyStats]
    /\ result = [p \in Procs |-> NoResult]
    /\ orphans = [p \in Procs |-> {}]
    /\ deleted = [p \in Procs |-> 0]
    /\ runs = 0
    /\ faults = 0
    /\ api_adds = 0
    /\ api_result = "none"
    /\ times_processed = [n \in Names |-> 0]
    /\ handled = [p \in Procs |-> <<>>]
    /\ clean_seen = [p \in Procs |-> NoCleanSeen]
    /\ source_dir_exists = TRUE
    /\ exit_code = [p \in Procs |-> Running]
    /\ config = [p \in Procs |-> NoConfig]
    /\ call = NoCall
    /\ added = {}

NextRepeat == BatchStep(1) \/ CopyWriteFault(1) \/ RegisterFails(1)

\* a call runs to its end and the caller calls again: the steps of the code
\* are taken as long as one is possible; failures of the environment are not
\* bound to happen
SpecRepeat == InitRepeat /\ [][NextRepeat]_vars /\ WF_vars(BatchStep(1))

\* the steps a real-mode process takes when nothing fails but the process
\* itself: process_batch without its failure paths, the restart, the cleanup
RunStep(p) ==
    \/ SelectBatch(p)
    \/ NextFile(p)
    \/ CopyCheck(p)
    \/ CopyWrite(p)
    \/ CopyVerify(p)
    \/ CopyError(p)
    \/ ComputeHash(p)
    \/ Register(p)
    \/ ReturnBatch(p)
    \/ RecoverStart(p)
    \/ CleanDelete(p)
    \/ CleanReturn(p)

NextCrash == RunStep(1) \/ Crash(1)

\* process_batch is called again and again; the process may be terminated
\* inside a call, and is then started again: it runs clean_target_orphans and
\* goes back to calling process_batch
SpecCrash == InitRepeat /\ [][NextCrash]_vars /\ WF_vars(RunStep(1))

(***************************************************************************)
(* main, normal processing mode                                            *)
(***************************************************************************)
\* what the configuration file and the environment give: whether a required
\* field is missing (None), and the values FileProcessor is built from
ConfigFiles ==
    [missing : BOOLEAN, batch_size : 0..MaxBatch, dry_run : BOOLEAN,
     compute_hash : BOOLEAN, recursive : BOOLEAN, exclude_patterns : PatternLists]

\* the command line: --batch-size is <<>> when not given, --dry-run and
\* --compute-hash are flags, --exclude is a tuple, empty when not given
CliOptions ==
    [batch_size : {<<>>} \cup {<<n>> : n \in 0..MaxBatch}, dry_run : BOOLEAN,
     compute_hash : BOOLEAN, exclude : PatternLists]

\* Config._validate_config: the exception it raises, or "ok"; a source
\* directory that does not exist is only warned about
_validate_config(conf) ==
    IF conf.missing THEN "ValueError"
    ELSE IF conf.batch_size <= 0 THEN "ValueError"
    ELSE "ok"

\* Config.apply_cli_overrides: every argument that is not None replaces the
\* configured value; a flag is never None, an exclude tuple is appended
apply_cli_overrides(conf, cli) ==
    [conf EXCEPT !.batch_size = IF cli.batch_size # <<>>
                                THEN cli.batch_size[1] ELSE @,
                 !.dry_run = cli.dry_run,
                 !.compute_hash = cli.compute_hash,
                 !.exclude_patterns = @ \o cli.exclude]

\* lines 101-113: the configuration is loaded and validated, then the
\* command line is applied to it
MainConfig(p) ==
    /\ pc[p] = "new"
    /\ exit_code[p] = Running
    /\ config[p] = NoConfig
    /\ \E file \in ConfigFiles, cli \in CliOptions :
         IF _validate_config(file) # "ok"
         THEN \* lines 252-257: except ValueError
              /\ exit_code' = [exit_code EXCEPT ![p] = 1]
              /\ UNCHANGED config
         ELSE /\ config' = [config EXCEPT ![p] = apply_cli_overrides(file, cli)]
              /\ UNCHANGED exit_code
    /\ UNCHANGED <<world, cfg, pc, locals, result, runs, faults, api_adds,
                   api_result, times_processed, handled, clean_seen,
                   source_dir_exists, call, added>>

\* lines 132 and 179-189: the record store is opened and the FileProcessor
\* is built from the configuration
MainConstruct(p) ==
    /\ pc[p] = "new"
    /\ exit_code[p] = Running
    /\ config[p] # NoConfig
    /\ \E store_ok \in BOOLEAN :
         IF ~store_ok
         THEN \* lines 259-264: except Exception
              /\ exit_code' = [exit_code EXCEPT ![p] = 2]
              /\ UNCHANGED <<cfg, pc, target_dir_exists>>
         ELSE IF ~source_dir_exists
         THEN \* FileProcessor.__init__ raises ValueError: lines 252-257
              /\ exit_code' = [exit_code EXCEPT ![p] = 1]
              /\ UNCHANGED <<cfg, pc, target_dir_exists>>
         ELSE /\ cfg' = [cfg EXCEPT ![p] =
                           [batch_size |-> config[p].batch_size,
                            dry_run |-> config[p].dry_run,
                            compute_hash |-> config[p].compute_hash,
                            exclude_patterns |-> config[p].exclude_patterns,
                            recursive |-> config[p].recursive]]
              /\ target_dir_exists' =
                    IF config[p].dry_run THEN target_dir_exists ELSE TRUE
              /\ pc' = [pc EXCEPT ![p] = "idle"]
              /\ UNCHANGED exit_code
    /\ UNCHANGED <<source, target, processed_files, errors, now, locals, result,
                   runs, faults, api_adds, api_result, times_processed, handled,
                   clean_seen, source_dir_exists, config,
                   call, added>>

\* line 206: main calls process_batch, once
MainProcess(p) ==
    /\ exit_code[p] = Running
    /\ result[p] = NoResult
    /\ SelectBatch(p)

\* lines 241-243: the exit code after the batch
MainExit(p) ==
    /\ pc[p] = "idle"
    /\ exit_code[p] = Running
    /\ result[p].kind = "batch"
    /\ exit_code' = [exit_code EXCEPT ![p] =
                       IF result[p].stats.errors > 0 THEN 1 ELSE 0]
    /\ pc' = [pc EXCEPT ![p] = "exited"]
    /\ UNCHANGED <<world, cfg, locals, result, runs, faults, api_adds, api_result,
                   times_processed, handled, clean_seen, source_dir_exists,
                   config, call, added>>

\* the steps of process_batch after the selection
LoopStep(p) ==
    \/ NextFile(p)
    \/ CopyCheck(p)
    \/ CopyWrite(p)
    \/ CopyVerify(p)
    \/ CopyError(p)
    \/ ComputeHash(p)
    \/ Register(p)
    \/ Rollback(p)
    \/ LogDbError(p)
    \/ ReturnBatch(p)

NextMain ==
    \/ MainConfig(1)
    \/ MainConstruct(1)
    \/ MainProcess(1)
    \/ LoopStep(1)
    \/ BatchFault(1)
    \/ MainExit(1)

\* one invocation of the command line in normal processing mode
SpecMain == Init /\ [][NextMain]_vars

(***************************************************************************)
(* DatabaseManager, called by a client                                     *)
(***************************************************************************)
\* x.txt, a file name that is in no source directory
NameX == <<"x">>
StoreNames == Names \cup {NameX}

\* the lists of file names of length n
RECURSIVE FilenameLists(_)
FilenameLists(n) ==
    IF n = 0 THEN {<<>>}
    ELSE {Append(l, f) : l \in FilenameLists(n - 1), f \in StoreNames}

\* the arguments of get_unprocessed_files: lists, names repeated or not
SourceFileLists == UNION {FilenameLists(n) : n \in 0..MaxFilenames}

\* the arguments limit and offset of get_processed_files; limit is <<>>
\* when it is None
Limits == {<<>>} \cup {<<n>> : n \in 0..MaxRows}
Offsets == 0..MaxRows

\* SELECT SUM(size)
RECURSIVE SumSize(_)
SumSize(table) ==
    IF table = <<>> THEN 0
    ELSE table[1].size + SumSize(Tail(table))

\* the copy_date of the first row of ORDER BY copy_date DESC
MaxCopyDate(table) ==
    CHOOSE d \in {table[i].copy_date : i \in DOMAIN table} :
        \A i \in DOMAIN table : table[i].copy_date <= d

\* mutant of get_statistics: the errors are counted in the wrong table
get_statistics_count_files(table, errs) ==
    [total_files |-> Len(table),
     total_size |-> SumSize(table),
     total_errors |-> Len(table),
     last_copy |-> IF table = <<>> THEN None ELSE MaxCopyDate(table)]

\* DatabaseManager.get_statistics
get_statistics(table, errs) ==
    [total_files |-> Len(table),
     total_size |-> SumSize(table),
     total_errors |-> Len(errs),
     last_copy |-> IF table = <<>> THEN None ELSE MaxCopyDate(table)]

\* the orders in which SELECT ... ORDER BY copy_date DESC may return the
\* rows: rows of the same copy_date come in any order
OrderedByCopyDate(table) ==
    {[i \in DOMAIN table |-> table[perm[i]]] :
        perm \in {f \in [DOMAIN table -> DOMAIN table] :
                    /\ \A i, j \in DOMAIN table : i # j => f[i] # f[j]
                    /\ \A i, j \in DOMAIN table :
                          i < j => table[f[i]].copy_date >= table[f[j]].copy_date}}

\* DatabaseManager.get_processed_files on the ordered rows: LIMIT and OFFSET
\* are added to the query only "if limit"
get_processed_files(ordered, limit, offset) ==
    IF limit = <<>> \/ limit[1] = 0 THEN ordered
    ELSE SubSeq(ordered, offset + 1,
                IF offset + limit[1] < Len(ordered) THEN offset + limit[1]
                ELSE Len(ordered))

\* mutant of StoreAdd: INSERT OR REPLACE, a second add replaces the record
StoreAddReplaces ==
    \E filename \in StoreNames, size \in 1..MaxSize, copy_date \in 1..MaxDate :
        /\ Len(processed_files) < MaxRows \/ UniqueViolated(processed_files, filename)
        /\ processed_files' =
               add_processed_file(
                   SelectSeq(processed_files, LAMBDA r : r.filename # filename),
                   filename, [dir |-> "api", name |-> filename],
                   [dir |-> "target", name |-> filename], size, copy_date, None)
        /\ call' = [op |-> "add_processed_file", filename |-> filename,
                    raised |-> "no", value |-> Len(processed_files')]
        /\ added' = added \cup {filename}
        /\ UNCHANGED <<source, target_dir_exists, target, errors, now, cfg, pc,
                       locals, result, runs, faults, api_adds, api_result,
                       times_processed, handled, clean_seen, source_dir_exists,
                       exit_code, config>>

\* add_processed_file(filename, ..., size, copy_date)
StoreAdd ==
    \E filename \in StoreNames, size \in 1..MaxSize, copy_date \in 1..MaxDate :
        /\ Len(processed_files) < MaxRows \/ UniqueViolated(processed_files, filename)
        /\ IF UniqueViolated(processed_files, filename)
           THEN /\ call' = [op |-> "add_processed_file", filename |-> filename,
                            raised |-> "IntegrityError"]
                /\ UNCHANGED <<processed_files, added>>
           ELSE /\ processed_files' =
                     add_processed_file(processed_files, filename,
                                        [dir |-> "api", name |-> filename],
                                        [dir |-> "target", name |-> filename],
                                        size, copy_date, None)
                /\ call' = [op |-> "add_processed_file", filename |-> filename,
                            raised |-> "no", value |-> Len(processed_files) + 1]
                /\ added' = added \cup {filename}
        /\ UNCHANGED <<source, target_dir_exists, target, errors, now, cfg, pc,
                       locals, result, runs, faults, api_adds, api_result,
                       times_processed, handled, clean_seen, source_dir_exists,
                       exit_code, config>>

\* log_error(filename, error_type, error_message)
StoreLogError ==
    /\ Len(errors) < MaxStoreErrors
    /\ \E filename \in StoreNames, error_type \in {"COPY_ERROR", "DB_ERROR"} :
         /\ errors' = log_error(errors, now, filename, error_type, "message")
         /\ call' = [op |-> "log_error", filename |-> filename,
                     value |-> Len(errors) + 1]
    /\ UNCHANGED <<source, target_dir_exists, target, processed_files, now, cfg,
                   pc, locals, result, runs, faults, api_adds, api_result,
                   times_processed, handled, clean_seen, source_dir_exists,
                   exit_code, config, added>>

\* the calls that only read
StoreRead(c) ==
    /\ call' = c
    /\ UNCHANGED <<world, cfg, pc, locals, result, runs, faults, api_adds,
                   api_result, times_processed, handled, clean_seen,
                   source_dir_exists, exit_code, config, added>>

StoreIsFileProcessed ==
    \E filename \in StoreNames :
        StoreRead([op |-> "is_file_processed", filename |-> filename,
                   value |-> is_file_processed(processed_files, filename)])

StoreGetUnprocessedFiles ==
    \E source_files \in SourceFileLists :
        StoreRead([op |-> "get_unprocessed_files", source_files |-> source_files,
                   value |-> get_unprocessed_files(processed_files, source_files)])

StoreGetStatistics ==
    StoreRead([op |-> "get_statistics",
               value |-> get_statistics(processed_files, errors)])

StoreGetProcessedFiles ==
    \E limit \in Limits, offset \in Offsets,
       ordered \in OrderedByCopyDate(processed_files) :
        StoreRead([op |-> "get_processed_files", limit |-> limit,
                   offset |-> offset, ordered |-> ordered,
                   value |-> get_processed_files(ordered, limit, offset)])

\* an empty store, its client alone
InitStore ==
    /\ Init
    /\ source_dir_exists /\ target_dir_exists
    /\ source = [p \in SourcePaths |-> Content(p)]
    /\ target = [n \in Names |-> NoFile]

NextStore ==
    \/ StoreAdd
    \/ StoreLogError
    \/ StoreIsFileProcessed
    \/ StoreGetUnprocessedFiles
    \/ StoreGetStatistics
    \/ StoreGetProcessedFiles

\* any sequence of calls to the record store
SpecStore == InitStore /\ [][NextStore]_vars

(***************************************************************************)
(* Properties                                                              *)
(***************************************************************************)
\* processor p takes a step
Moves(p) == pc'[p] # pc[p] \/ idx'[p] # idx[p]

\* the last row of a table
Last(table) == table[Len(table)]

\* a row is inserted by process_batch (the client's rows carry dir "api")
BatchInserts ==
    /\ Len(processed_files') = Len(processed_files) + 1
    /\ Last(processed_files').source_path.dir # "api"

\* the loop body of p ends with this step, after a copy was attempted for
\* the current file in real mode
EndsAfterCopy(p) ==
    /\ ~cfg[p].dry_run
    /\ pc[p] \in {"copy_failed", "register", "log_db_error"}
    /\ idx'[p] = idx[p] + 1
    /\ cur[p].error_msg # "File already exists in target"

\* what holds of the size check: a copy that returned with a byte count
\* other than the source's is removed and the file goes to the error path
\* without a record; a record is only inserted while the target file holds
\* exactly the bytes of its source, with the recorded size equal to both
CheckedCopies(p) ==
    /\ ( /\ pc[p] = "verify" /\ Moves(p)
         /\ target[CurName(p)] # NoFile
         /\ target[CurName(p)].size # source[CurFile(p)].size )
       => ( /\ target'[CurName(p)] = NoFile
            /\ pc'[p] = "copy_failed"
            /\ processed_files' = processed_files )
    /\ (pc[p] = "copy_failed" /\ Moves(p))
       => processed_files' = processed_files
    /\ (pc[p] = "register" /\ Moves(p) /\ BatchInserts)
       => LET row == Last(processed_files')
          IN  /\ row.filename = CurName(p)
              /\ target[row.filename] = source[row.source_path]
              /\ row.size = target[row.filename].size
              /\ row.size = source[row.source_path].size

\* C3 (size verification): whenever the copy of a file has left a target
\* file whose byte count differs from the source's, no record is created
\* for the file and the target file is removed by the time the loop is done
\* with the file; a record is only inserted for a target checked equal in
\* size to its source.
C3_SizeVerification ==
    [][\A p \in Procs :
        /\ CheckedCopies(p)
        /\ EndsAfterCopy(p)
           => \/ target'[CurName(p)] = NoFile
              \/ target'[CurName(p)].size = source[CurFile(p)].size
      ]_vars

\* C3 witness: the loop is done with a file whose copy raised after a partial
\* write: the short target file is still there, without a record
C3_Witness ==
    \E p \in Procs : \E i \in DOMAIN handled[p] :
        LET h == handled[p][i]
        IN  /\ ~cfg[p].dry_run
            /\ h.env = "partial" /\ h.outcome = "error"
            /\ target[h.file.name] # NoFile
            /\ target[h.file.name].size < source[h.file].size
            /\ ~is_file_processed(processed_files, h.file.name)

\* C4 (simulation-mode purity): no step of a processor constructed with
\* dry_run (its constructor, process_batch, clean_target_orphans) changes the
\* target directory's existence, the target's files, the record table or the
\* error log.
C4_DryRunPurity ==
    [][\A p \in Procs :
        (cfg'[p].dry_run /\ Step(p))
        => /\ target_dir_exists' = target_dir_exists
           /\ target' = target
           /\ processed_files' = processed_files
           /\ errors' = errors
      ]_vars

\* C4 witness: a dry-run batch has reported a processed file while the target
\* directory does not even exist and the store is still empty
C4_Witness ==
    \E p \in Procs :
        /\ cfg[p].dry_run
        /\ pc[p] = "idle"
        /\ result[p].kind = "batch"
        /\ result[p].stats.processed >= 1
        /\ ~target_dir_exists
        /\ processed_files = <<>>
        /\ errors = <<>>

\* what the glob "*.t" is meant to match: names ending in ".t"
EndsWithDotT(n) == Len(n) >= 2 /\ n[Len(n) - 1] = "." /\ n[Len(n)] = "t"
ExcludedBySpec(n, exclude_patterns) ==
    \E i \in DOMAIN exclude_patterns : exclude_patterns[i] = PatTmp /\ EndsWithDotT(n)

\* the names listed in a stats dict
StatsNames(st) ==
    Range(st.files_processed) \cup Range(st.files_skipped)
    \cup {st.files_errors[i].file : i \in DOMAIN st.files_errors}

\* C6 (exclusion): a name matching an exclude glob of the processor is in no
\* list of any result, is never selected, never copied and never recorded by
\* a batch.
C6_Exclusion ==
    \A p \in Procs : \A n \in Names :
        (pc[p] # "new" /\ ExcludedBySpec(n, cfg[p].exclude_patterns))
        => /\ n \notin StatsNames(stats[p])
           /\ n \notin StatsNames(result[p].stats)
           /\ \A i \in DOMAIN files_to_process[p] : files_to_process[p][i].name # n
           /\ target[n].data \in {"none", "ext"}
           /\ \A i \in DOMAIN processed_files :
                processed_files[i].filename = n => processed_files[i].source_path.dir = "api"
           /\ times_processed[n] = 0

\* C6 witness: a real batch has processed a file while an excluded file was
\* in the source, and the excluded file is not in the target
C6_Witness ==
    \E p \in Procs :
        /\ pc[p] = "idle" /\ ~cfg[p].dry_run
        /\ cfg[p].exclude_patterns = <<PatTmp>>
        /\ source[PathT] # NoFile
        /\ result[p].kind = "batch"
        /\ result[p].stats.processed >= 1
        /\ target[NameT] = NoFile

\* the order the sort is meant to produce on the names of the model
SortsBefore(n, m) == n = NameA /\ m = NameT

Min(a, b) == IF a <= b THEN a ELSE b

\* the source files process_batch may select: listed by the glob, not
\* excluded, without a record
Eligible(p) ==
    {f \in SourcePaths :
        /\ source[f] # NoFile
        /\ (cfg[p].recursive \/ f.dir = "")
        /\ ~ExcludedBySpec(f.name, cfg[p].exclude_patterns)
        /\ \A i \in DOMAIN processed_files : processed_files[i].filename # f.name}

\* sel holds the first min(batch_size, U) eligible files in name order
IsFirstBatch(sel, p) ==
    /\ Len(sel) = Min(cfg[p].batch_size, Cardinality(Eligible(p)))
    /\ \A i \in DOMAIN sel : sel[i] \in Eligible(p)
    /\ \A i, j \in DOMAIN sel :
          i < j => (sel[i] # sel[j] /\ ~SortsBefore(sel[j].name, sel[i].name))
    /\ \A f \in Eligible(p) \ Range(sel) :
          \A i \in DOMAIN sel : ~SortsBefore(f.name, sel[i].name)

\* the stats dict t is s with name n counted in exactly one of its lists
CountedOnce(s, t, n) ==
    \/ t = [s EXCEPT !.processed = @ + 1,
                     !.total_size = t.total_size,
                     !.files_processed = Append(@, n)]
    \/ t = [s EXCEPT !.skipped = @ + 1, !.files_skipped = Append(@, n)]
    \/ /\ Len(t.files_errors) = Len(s.files_errors) + 1
       /\ t = [s EXCEPT !.errors = @ + 1,
                        !.files_errors = Append(@, Last(t.files_errors))]
       /\ Last(t.files_errors).file = n

\* C7 (batch selection): a call selects exactly the first
\* min(batch_size, U) files, in name order, of the source files that are
\* listed, not excluded and without record when the store is filtered; it
\* returns at once when there is none; the loop handles the selected files one
\* by one in that order, each counted in exactly one list; and the returned
\* processed + skipped + errors equals the number selected.
C7_BatchSelection ==
    [][\A p \in Procs :
        /\ (pc[p] = "idle" /\ pc'[p] = "file")
           => (IsFirstBatch(files_to_process'[p], p) /\ idx'[p] = 1)
        /\ (pc[p] = "idle" /\ pc'[p] = "idle" /\ result'[p].kind = "batch"
              /\ runs' = runs + 1)
           => (Eligible(p) = {} /\ StatsNames(result'[p].stats) = {})
        /\ (pc[p] \notin {"new", "idle", "clean"} /\ idx'[p] # idx[p])
           => /\ idx'[p] = idx[p] + 1
              /\ files_to_process'[p] = files_to_process[p]
              /\ CountedOnce(stats[p], stats'[p], CurName(p))
        /\ (pc[p] = "file" /\ pc'[p] = "idle")
           => LET r == result'[p].stats
              IN  /\ idx[p] = Len(files_to_process[p]) + 1
                  /\ r.processed + r.skipped + r.errors = Len(files_to_process[p])
                  /\ r.processed = Len(r.files_processed)
                  /\ r.skipped = Len(r.files_skipped)
                  /\ r.errors = Len(r.files_errors)
      ]_vars

\* C7 witness: a real batch was just cut at batch_size, more files being
\* eligible than it takes
C7_Witness ==
    \E p \in Procs :
        /\ pc[p] = "file" /\ idx[p] = 1 /\ ~cfg[p].dry_run
        /\ Len(files_to_process[p]) = cfg[p].batch_size
        /\ Cardinality(Eligible(p)) > cfg[p].batch_size

\* C9 (no overwrite): when the target path of the current file exists at its
\* copy, the copy fails without touching the target or the store, and the
\* file is then counted in errors, not in processed, with no record written.
C9_NoOverwrite ==
    [][\A p \in Procs :
        /\ (pc[p] = "copy" /\ Moves(p) /\ target[CurName(p)] # NoFile)
           => /\ pc'[p] = "copy_failed"
              /\ cur'[p].error_msg = "File already exists in target"
              /\ target' = target
              /\ processed_files' = processed_files
        /\ (pc[p] = "copy_failed" /\ Moves(p)
              /\ cur[p].error_msg = "File already exists in target")
           => /\ target' = target
              /\ processed_files' = processed_files
              /\ stats'[p].errors = stats[p].errors + 1
              /\ stats'[p].processed = stats[p].processed
              /\ stats'[p].files_processed = stats[p].files_processed
              /\ Last(stats'[p].files_errors).file = CurName(p)
              /\ pc'[p] = "file" /\ idx'[p] = idx[p] + 1
      ]_vars

\* C9 witness: a real batch has returned with an error for a file whose
\* hand-dropped target is still there, unrecorded
C9_Witness ==
    \E p \in Procs :
        /\ pc[p] = "idle" /\ ~cfg[p].dry_run /\ result[p].kind = "batch"
        /\ result[p].stats.errors = 1
        /\ result[p].stats.files_errors[1] =
             [file |-> NameA, error |-> "File already exists in target"]
        /\ target[NameA] = External
        /\ ~is_file_processed(processed_files, NameA)

\* C10 (record-insert rollback): when the insert of a just-copied file
\* fails in real mode, the next steps delete its target file, then log exactly
\* one DB_ERROR entry for it, count it in errors and not in processed, and go
\* on with the next file of the batch.
C10_InsertRollback ==
    [][\A p \in Procs :
        /\ (pc[p] = "register" /\ Moves(p) /\ processed_files' = processed_files
              /\ ~cfg[p].dry_run)
           => (pc'[p] = "rollback" /\ target' = target /\ errors' = errors
               /\ stats'[p] = stats[p])
        /\ (pc[p] = "rollback" /\ Moves(p))
           => /\ pc'[p] = "log_db_error"
              /\ target' = [target EXCEPT ![CurName(p)] = NoFile]
              /\ errors' = errors /\ processed_files' = processed_files
        /\ (pc[p] = "log_db_error" /\ Moves(p))
           => /\ Len(errors') = Len(errors) + 1
              /\ SubSeq(errors', 1, Len(errors)) = errors
              /\ Last(errors').error_type = "DB_ERROR"
              /\ Last(errors').filename = CurName(p)
              /\ target' = target /\ target[CurName(p)] = NoFile
              /\ processed_files' = processed_files
              /\ stats'[p].errors = stats[p].errors + 1
              /\ stats'[p].processed = stats[p].processed
              /\ stats'[p].files_processed = stats[p].files_processed
              /\ pc'[p] = "file" /\ idx'[p] = idx[p] + 1
              /\ files_to_process'[p] = files_to_process[p]
      ]_vars

\* C10 witness: after a failed insert the batch went on: the failed file has
\* no target and no record, a DB_ERROR is logged, and the next file of the
\* batch was processed
C10_Witness ==
    \E p \in Procs :
        /\ pc[p] = "idle" /\ result[p].kind = "batch"
        /\ Len(files_to_process[p]) = 2
        /\ result[p].stats.errors = 1 /\ result[p].stats.processed = 1
        /\ Len(errors) = 1 /\ errors[1].error_type = "DB_ERROR"
        /\ errors[1].filename = files_to_process[p][1].name
        /\ target[errors[1].filename] = NoFile
        /\ ~is_file_processed(processed_files, errors[1].filename)

\* C2 (uniqueness): no two rows of processed_files carry the same filename,
\* whatever two interleaved runs and direct add_processed_file calls do.
C2_Uniqueness ==
    \A i, j \in DOMAIN processed_files :
        i # j => processed_files[i].filename # processed_files[j].filename

\* C2 witness: two interleaved runs copied the same name and the second
\* INSERT was rejected by the UNIQUE constraint
C2_Witness ==
    \E p, q \in Procs :
        /\ p # q
        /\ pc[p] = "rollback" /\ cur[p].error_msg = "UNIQUE constraint failed"
        /\ \E i \in DOMAIN processed_files :
              /\ processed_files[i].filename = CurName(p)
              /\ processed_files[i].source_path.dir # "api"

\* a call of process_batch by p returns with this step
BatchReturns(p) ==
    \/ pc[p] = "file" /\ pc'[p] = "idle"
    \/ /\ pc[p] = "idle" /\ pc'[p] = "idle"
       /\ runs' = runs + 1 /\ result'[p].kind = "batch"

\* the number of files a real-mode call would select from the present state
WouldSelect(p) == Min(cfg[p].batch_size, Cardinality(Eligible(p)))

\* the selected files whose target path exists
SelectedWithTarget(p) ==
    {i \in DOMAIN files_to_process[p] :
        target[files_to_process[p][i].name] # NoFile}

\* C5 as stated (simulation/real agreement): the processed count a dry-run
\* call returns equals the number of files a real-mode call would select
\* from the same source, target and store.
C5_SimulationAgreement ==
    [][\A p \in Procs :
        (cfg[p].dry_run /\ BatchReturns(p))
        => result'[p].stats.processed = WouldSelect(p)
      ]_vars

\* C5 amended: the processed count a dry-run call returns equals the number
\* of files a real-mode call would select from the same source, target and
\* store, less the selected files whose target path already exists; those
\* are reported in errors.
C5_SimulationAgreementAmended ==
    [][\A p \in Procs :
        (cfg[p].dry_run /\ BatchReturns(p))
        => /\ Len(files_to_process'[p]) = WouldSelect(p)
           /\ result'[p].stats.processed =
                 WouldSelect(p) - Cardinality(SelectedWithTarget(p)')
           /\ result'[p].stats.errors = Cardinality(SelectedWithTarget(p)')
           /\ result'[p].stats.skipped = 0
      ]_vars

\* C5 witness: a dry-run call has returned with one file processed and one
\* refused because its target path exists
C5_Witness ==
    \E p \in Procs :
        /\ cfg[p].dry_run /\ pc[p] = "idle" /\ result[p].kind = "batch"
        /\ result[p].stats.processed = 1
        /\ result[p].stats.errors = 1
        /\ result[p].stats.files_errors[1].error = "File already exists in target"
        /\ Len(files_to_process[p]) = 2

\* what the loop found when it came to the i-th file it handled
SeenAt(hs, i) ==
    [recorded |-> hs[i].seen_recorded, present |-> hs[i].seen_present]

\* the outcome recorded for every handled file is the one LoopBody computes
\* from what the loop found and what the environment answered
HandledAsLoopBody(p) ==
    \A i \in DOMAIN handled[p] :
        handled[p][i].outcome =
            LoopBody(SeenAt(handled[p], i), handled[p][i].file,
                     handled[p][i].env, cfg[p].dry_run).outcome

\* a call that has returned has handled every file it selected, in order
AllAttempted(p) ==
    (pc[p] = "idle" /\ result[p].kind = "batch")
    => /\ Len(handled[p]) = Len(files_to_process[p])
       /\ \A i \in DOMAIN handled[p] : handled[p][i].file = files_to_process[p][i]

\* the outcome the j-th handled file would have had, had the i-th succeeded
HadSucceeded(p, i, j) ==
    LoopOutcome(LoopBodySucceeds(SeenAt(handled[p], i), handled[p][i].file,
                                 cfg[p].dry_run),
                handled[p], i + 1, j, cfg[p].dry_run)

\* C8 as stated (failure isolation): a failed file does not end the call:
\* every selected file is attempted, and each file handled after a failed
\* one has the outcome it would have had, had the failed one succeeded.
C8_FailureIsolation ==
    \A p \in Procs :
        /\ AllAttempted(p)
        /\ HandledAsLoopBody(p)
        /\ \A i, j \in DOMAIN handled[p] :
              (i < j /\ handled[p][i].outcome = "error")
              => handled[p][j].outcome = HadSucceeded(p, i, j)

\* C8 amended: a failed file does not end the call: every selected file is
\* attempted, and each file handled after a failed one and bearing another
\* base name has the outcome it would have had, had the failed one succeeded.
C8_FailureIsolationAmended ==
    \A p \in Procs :
        /\ AllAttempted(p)
        /\ HandledAsLoopBody(p)
        /\ \A i, j \in DOMAIN handled[p] :
              (i < j /\ handled[p][i].outcome = "error"
                 /\ handled[p][j].file.name # handled[p][i].file.name)
              => handled[p][j].outcome = HadSucceeded(p, i, j)

\* C8 witness: a real call has returned after its first file failed and its
\* second file, of another name, was processed
C8_Witness ==
    \E p \in Procs :
        /\ pc[p] = "idle" /\ result[p].kind = "batch" /\ ~cfg[p].dry_run
        /\ Len(handled[p]) = 2
        /\ handled[p][1].outcome = "error"
        /\ handled[p][2].outcome = "processed"
        /\ handled[p][2].file.name # handled[p][1].file.name

\* the base names of the source files processor p lists and does not exclude
SourceNames(p) ==
    {f.name : f \in {g \in SourcePaths :
                        /\ source[g] # NoFile
                        /\ (cfg[p].recursive \/ g.dir = "")
                        /\ ~ExcludedBySpec(g.name, cfg[p].exclude_patterns)}}

\* every non-excluded source name has been listed in files_processed by
\* exactly one call, and no other name by any
AllOnce(p) ==
    \A n \in Names : times_processed[n] = IF n \in SourceNames(p) THEN 1 ELSE 0

\* a call of p has counted a file in errors
ReportsError(p) == stats[p].errors > 0

\* a call of p started once every name is processed returns processed == 0
\* and leaves every name processed once
NothingAfterDone(p) ==
    (AllOnce(p) /\ pc[p] = "idle" /\ runs' = runs + 1)
    => /\ BatchReturns(p)
       /\ result'[p].stats.processed = 0
       /\ AllOnce(p)'

CleanReturnsAtOnce(p) ==
    /\ pc[p] = "idle" /\ pc'[p] = "idle"
    /\ runs' = runs + 1 /\ result'[p].kind = "clean"
CleanReturnsAfterLoop(p) == pc[p] = "clean" /\ pc'[p] = "idle"
CleanReturns(p) == CleanReturnsAtOnce(p) \/ CleanReturnsAfterLoop(p)

\* the target as the returning call found it, and the deletions that failed
FoundByClean(p) == IF pc[p] = "clean" THEN clean_seen[p].before ELSE target
FailedInClean(p) == IF pc[p] = "clean" THEN clean_seen[p].failed ELSE {}

\* the name has a row in processed_files
Tracked(n) == \E i \in DOMAIN processed_files : processed_files[i].filename = n

\* C11 (orphan reconciliation): when a real-mode clean_target_orphans in
\* which no deletion failed returns, the target holds exactly the files it
\* held when the call started and that have a record, each unmodified: the
\* untracked ones are gone, the tracked ones untouched.
C11_OrphanReconciliation ==
    [][\A p \in Procs :
        (~cfg[p].dry_run /\ CleanReturns(p) /\ FailedInClean(p) = {})
        => \A n \in Names :
             target'[n] = IF FoundByClean(p)[n] # NoFile /\ Tracked(n)
                          THEN FoundByClean(p)[n] ELSE NoFile
      ]_vars

\* C11 witness: a real-mode clean_target_orphans has returned after deleting
\* a file, and a tracked file is still in the target
C11_Witness ==
    \E p \in Procs :
        /\ ~cfg[p].dry_run /\ pc[p] = "idle"
        /\ result[p].kind = "clean" /\ result[p].deleted >= 1
        /\ \E n \in Names : Tracked(n) /\ target[n] # NoFile
        /\ \E n \in Names : ~Tracked(n) /\ target[n] = NoFile
        /\ faults = 0

\* the target files without a record, as the returning call found them
OrphansFound(p) == {n \in Names : FoundByClean(p)[n] # NoFile /\ ~Tracked(n)}

\* C12 as stated (orphan count): clean_target_orphans returns the number of
\* target files without a record; in real mode those files are absent
\* afterwards, in simulation mode they are all still there.
C12_OrphanCount ==
    [][\A p \in Procs :
        CleanReturns(p)
        => /\ result'[p].deleted = Cardinality(OrphansFound(p))
           /\ IF cfg[p].dry_run
              THEN target' = FoundByClean(p)
              ELSE \A n \in OrphansFound(p) : target'[n] = NoFile
      ]_vars

\* C12 amended: clean_target_orphans returns the number of target files
\* without a record, less those whose deletion failed in real mode; in real
\* mode the counted files are absent afterwards and the others still there,
\* in simulation mode all are counted and all are still there.
C12_OrphanCountAmended ==
    [][\A p \in Procs :
        CleanReturns(p)
        => /\ FailedInClean(p) \subseteq OrphansFound(p)
           /\ result'[p].deleted =
                 Cardinality(OrphansFound(p)) - Cardinality(FailedInClean(p))
           /\ IF cfg[p].dry_run
              THEN target' = FoundByClean(p) /\ FailedInClean(p) = {}
              ELSE \A n \in OrphansFound(p) :
                     target'[n] = IF n \in FailedInClean(p)
                                  THEN FoundByClean(p)[n] ELSE NoFile
      ]_vars

\* C12 witness: a simulation-mode clean_target_orphans has returned 1 and the
\* file it counted, which has no record, is still in the target
C12_Witness ==
    \E p \in Procs :
        /\ cfg[p].dry_run /\ pc[p] = "idle"
        /\ result[p].kind = "clean" /\ result[p].deleted = 1
        /\ target[NameA] = External /\ ~Tracked(NameA)

\* every non-excluded source name of p has exactly one record and its target
\* file is there
Recovered(p) ==
    \A n \in SourceNames(p) :
        /\ Cardinality({i \in DOMAIN processed_files :
                           processed_files[i].filename = n}) = 1
        /\ target[n] # NoFile

\* C13 (crash recovery): if the process is terminated inside process_batch,
\* then, clean_target_orphans being run at the restart and process_batch
\* again and again after it, from some point on every non-excluded source
\* name has exactly one record and its target file is present.
C13_CrashRecovery ==
    /\ (<>(pc[1] = "crashed")) => <>[]Recovered(1)
    \* the cleanup at the restart leaves no target file without a record
    /\ [][CleanReturnsAfterLoop(1) =>
             \A n \in Names : target'[n] # NoFile => Tracked(n)]_vars

\* C13 witness: the process was terminated between a copy and its insert,
\* the cleanup deleted the unrecorded copy, and the calls that followed have
\* recorded and copied every source name
C13_Witness ==
    /\ faults >= 1 /\ pc[1] = "idle"
    /\ result[1].kind = "batch"
    /\ SourceNames(1) = Names
    /\ Recovered(1)
    /\ \A n \in Names : target[n].data \in {"A", "SubA", "T"}

\* C14 (record immutability): a record that exists for a file name exists
\* with the same field values after every step of process_batch,
\* clean_target_orphans, log_error and of a failed add_processed_file: no
\* step updates or deletes a record.
C14_RecordImmutability ==
    [][\A i \in DOMAIN processed_files :
          /\ i \in DOMAIN processed_files'
          /\ processed_files'[i] = processed_files[i]]_vars

\* C14 witness: a record of a batch is there after another run's insert for
\* the same name failed and was logged, a client's add_processed_file for it
\* was rejected, and a clean_target_orphans call has returned
C14_Witness ==
    /\ \E i \in DOMAIN processed_files :
          /\ processed_files[i].filename = NameA
          /\ processed_files[i].source_path \in SourcePaths
    /\ \E e \in DOMAIN errors :
          errors[e].filename = NameA /\ errors[e].error_type = "DB_ERROR"
    /\ api_result = "IntegrityError"
    /\ \E p \in Procs : result[p].kind = "clean"

\* process_batch has returned to main
BatchRan(p) == result[p].kind = "batch"

\* main has exited before it called process_batch
StartupFailed(p) == exit_code[p] # Running /\ pc[p] = "new"

\* after a batch, the exit code tells whether a file was counted in errors;
\* a record store that cannot be opened gives 2
ExitAfterBatch ==
    \A p \in Procs :
        /\ (exit_code[p] # Running /\ BatchRan(p)) =>
              exit_code[p] = IF result[p].stats.errors > 0 THEN 1 ELSE 0
        /\ exit_code[p] # Running => (BatchRan(p) <=> ~StartupFailed(p))
        /\ exit_code[p] = 0 => BatchRan(p) /\ result[p].stats.errors = 0

\* C15 (exit codes): the command exits 0 exactly when a batch ran with no
\* per-file error, 1 exactly when a batch ran with at least one per-file
\* error, and with a code other than 0 and 1 when a configuration or startup
\* failure occurs before any batch ran.
C15_ExitCodes ==
    \A p \in Procs :
        exit_code[p] # Running =>
            /\ exit_code[p] = 0 <=> (BatchRan(p) /\ result[p].stats.errors = 0)
            /\ exit_code[p] = 1 <=> (BatchRan(p) /\ result[p].stats.errors > 0)
            /\ StartupFailed(p) => exit_code[p] \notin {0, 1}

\* C15 witness: the command has exited with 1 before any batch ran, nothing
\* copied, recorded or logged
C15_Witness ==
    /\ StartupFailed(1) /\ exit_code[1] = 1
    /\ processed_files = <<>> /\ errors = <<>>
    /\ \A n \in Names : target[n] \in {NoFile, External}

\* a configuration with which, by the spec, startup must fail
Fatal(c) == c.missing \/ ~source_dir_exists \/ c.batch_size <= 0

\* C16 (fatal configuration errors): when the effective configuration (file,
\* environment and command-line overrides) has a missing required field, a
\* source directory that does not exist or a non-positive batch size, startup
\* fails and no batch runs: main goes on to exit with an error without
\* building a processor, no file is copied, no record and no error entry is
\* written.
C16_FatalConfiguration ==
    (config[1] # NoConfig /\ Fatal(config[1])) =>
        /\ pc[1] = "new"
        /\ exit_code[1] \in {Running, 1, 2}
        /\ processed_files = <<>>
        /\ errors = <<>>
        /\ \A n \in Names : target[n] \in {NoFile, External}

\* what holds of it: no processor is built from a configuration with a
\* missing required field or with a source directory that does not exist, or
\* from a configuration file or environment with a non-positive batch size
FatalBeforeOverrides ==
    [][(pc[1] = "new" /\ pc'[1] = "idle") =>
          /\ ~config[1].missing
          /\ source_dir_exists
          /\ \E file \in ConfigFiles, cli \in CliOptions :
                /\ config[1] = apply_cli_overrides(file, cli)
                /\ file.batch_size > 0]_vars

\* C16 witness: a processor built with a batch size of 0 has run a batch,
\* copied a file and recorded it
C16_Witness ==
    /\ config[1] # NoConfig /\ config[1].batch_size <= 0
    /\ cfg[1].batch_size = config[1].batch_size
    /\ BatchRan(1) /\ result[1].stats.processed = 1
    /\ processed_files # <<>>
    /\ \E n \in Names : target[n] # NoFile /\ target[n] # External

\* the listings get_source_files may return to processor p
Listings(p) ==
    {get_source_files(d, cfg[p].exclude_patterns) :
        d \in Orderings(Globbed(source, cfg[p].recursive))}

\* a batch size that covers all the files of a listing
Covering(source_files) == IF source_files = <<>> THEN 1 ELSE Len(source_files)

\* from the store and the target as they are, the total over repeated runs
\* is the same for every batch size and is the count of one covering run
SameTotals(p) ==
    \A source_files \in Listings(p) : \A bs \in 1..MaxBatch :
        TotalProcessed(processed_files, PresentNames(target), source_files, bs)
          = process_batch(processed_files, PresentNames(target), source_files,
                          Covering(source_files)).processed

\* a listed file without a record whose target path exists: its copy fails
Blocked(p) ==
    \E source_files \in Listings(p) : \E i \in DOMAIN source_files :
        /\ source_files[i].name \notin RecordedNames(processed_files)
        /\ target[source_files[i].name] # NoFile

\* the sum of the processed counts of the real-mode runs so far
SumProcessed == times_processed[NameA] + times_processed[NameT]

\* the calls of p so far, none of which met a failure, ended with a call that
\* returned processed == 0, and their processed counts sum to what
\* TotalProcessed computes from the store and the target they started from
RunsAsTotal(p) ==
    (/\ pc[p] = "idle" /\ result[p].kind = "batch"
     /\ result[p].stats.processed = 0 /\ faults = 0)
    => \A source_files \in Listings(p) :
          SumProcessed = TotalProcessed(<<>>, {n \in Names : target[n] = External},
                                        source_files, cfg[p].batch_size)

TurnOf(p) ==
    /\ pc[p] = "file" /\ idx[p] <= Len(files_to_process[p])
    /\ source[CurFile(p)] # NoFile
    /\ <<pc[p], idx[p], cur[p]>>' # <<pc[p], idx[p], cur[p]>>

\* C18 (re-check before copy): a selected file had no record when the batch
\* was filtered; if a record for its name is there when its turn comes,
\* process_batch counts it as skipped, does not enter the copy, writes no
\* record and no error entry for it, leaves the target untouched and goes on
\* to the next file.
C18_RecheckBeforeCopy ==
    [][\A p \in Procs :
          (TurnOf(p) /\ Tracked(CurName(p)))
          => /\ stats'[p].skipped = stats[p].skipped + 1
             /\ stats'[p].files_skipped = Append(stats[p].files_skipped, CurName(p))
             /\ stats'[p].processed = stats[p].processed
             /\ stats'[p].errors = stats[p].errors
             /\ pc'[p] = "file" /\ idx'[p] = idx[p] + 1
             /\ target' = target
             /\ processed_files' = processed_files
             /\ errors' = errors]_vars

\* C18 witness: without subdirectories, so that no two selected files share a
\* name, a run has skipped a file whose record another run or a client
\* inserted after the filter, and has returned
C18_Witness ==
    \E p \in Procs :
        /\ ~cfg[p].recursive
        /\ pc[p] = "idle" /\ result[p].kind = "batch"
        /\ result[p].stats.skipped = 1
        /\ result[p].stats.files_skipped = <<NameA>>
        /\ result[p].stats.errors = 0
        /\ Cardinality({i \in DOMAIN processed_files :
                           processed_files[i].filename = NameA}) = 1
        /\ NameA \notin Range(result[p].stats.files_processed)

\* p is in real mode with hashing enabled
Hashing(p) == cfg[p].compute_hash /\ ~cfg[p].dry_run

\* p leaves the hash computation of its current file
HashDone(p) == pc[p] = "hash" /\ pc'[p] # "hash"

\* p, whose hash computation failed, leaves the insert of the record without
\* the insert itself having failed
InsertsUnhashed(p) ==
    /\ pc[p] = "register" /\ cur[p].file_hash = None
    /\ pc'[p] \notin {"register", "rollback"}

\* C19 (hash degradation): in real mode with hashing enabled, when the hash
\* of a successfully copied file cannot be computed, the file goes on to be
\* recorded, without a hash, and is counted as processed; its target file
\* stays, no error entry is logged and errors is not incremented.
C19_HashDegradation ==
    [][\A p \in Procs : Hashing(p) =>
          /\ HashDone(p) =>
                /\ pc'[p] = "register"
                /\ stats'[p] = stats[p]
                /\ errors' = errors /\ target' = target
                /\ processed_files' = processed_files
          /\ InsertsUnhashed(p) =>
                /\ Len(processed_files') = Len(processed_files) + 1
                /\ Last(processed_files').filename = CurName(p)
                /\ Last(processed_files').hash = None
                /\ stats'[p].processed = stats[p].processed + 1
                /\ Last(stats'[p].files_processed) = CurName(p)
                /\ stats'[p].errors = stats[p].errors
                /\ errors' = errors
                /\ target' = target /\ target[CurName(p)] # NoFile]_vars

\* C19 witness: a run with hashing enabled in which the hash computation
\* failed has returned: the file is recorded without a hash, counted as
\* processed, its copy is in the target and nothing was logged
C19_Witness ==
    /\ Hashing(1) /\ faults = 1
    /\ pc[1] = "idle" /\ result[1].kind = "batch"
    /\ result[1].stats.processed >= 1 /\ result[1].stats.errors = 0
    /\ errors = <<>>
    /\ \E i \in DOMAIN processed_files :
          /\ processed_files[i].hash = None
          /\ processed_files[i].source_path \in SourcePaths
          /\ processed_files[i].filename \in Range(result[1].stats.files_processed)
          /\ target[processed_files[i].filename].data
                = source[processed_files[i].source_path].data

\* every entry of the error log is in the next state, unchanged
ErrorsAppendOnly ==
    \A i \in DOMAIN errors : i \in DOMAIN errors' /\ errors'[i] = errors[i]

\* p counts its current file in errors with this step
CountsError(p) == stats'[p].errors > stats[p].errors

\* every file counted in errors gets one entry in real mode, of the type of
\* its failure, and none in simulation mode; nothing else adds an entry
OneEntryPerError ==
    /\ \A p \in Procs : CountsError(p) =>
          /\ stats'[p].errors = stats[p].errors + 1
          /\ Last(stats'[p].files_errors).file = CurName(p)
          /\ IF cfg[p].dry_run THEN errors' = errors
             ELSE /\ Len(errors') = Len(errors) + 1
                  /\ Last(errors').filename = CurName(p)
                  /\ Last(errors').error_message = Last(stats'[p].files_errors).error
                  /\ Last(errors').error_type =
                        IF pc[p] = "log_db_error" THEN "DB_ERROR" ELSE "COPY_ERROR"
          /\ pc[p] = "log_db_error" <=>
                cur[p].error_msg \in {"database error", "UNIQUE constraint failed"}
    /\ errors' # errors => \E p \in Procs : CountsError(p) /\ ~cfg[p].dry_run

\* the entries a returned run has added are as many as its result's errors
EntriesAsResult ==
    \A p \in Procs :
        (pc[p] = "idle" /\ BatchRan(p)) =>
            Len(errors) = IF cfg[p].dry_run THEN 0 ELSE result[p].stats.errors

\* C20 (error log accounting): no step mutates or deletes an entry of the
\* error log; a real-mode process_batch appends exactly one entry for every
\* file it counts in errors, COPY_ERROR for a copy failure and DB_ERROR for an
\* insert failure, so that the entries added by a run are as many as the
\* errors of its result; a simulation-mode run appends none.
C20_ErrorLogAccounting ==
    /\ [][ErrorsAppendOnly /\ OneEntryPerError]_vars
    /\ []EntriesAsResult

\* C20 witness: a real-mode run whose insert failed for one file has
\* returned with errors == 1, and the log holds the one DB_ERROR entry for
\* that file
C20_Witness ==
    /\ pc[1] \in {"idle", "exited"} /\ BatchRan(1) /\ ~cfg[1].dry_run
    /\ result[1].stats.errors = 1
    /\ Len(errors) = 1
    /\ errors[1].error_type = "DB_ERROR"
    /\ errors[1].filename = result[1].stats.files_errors[1].file

\* the positions of a list of names whose name has no record
Unrecorded(source_files) ==
    {i \in DOMAIN source_files : ~Tracked(source_files[i])}

\* v is the list of the elements of source_files at the positions in keep,
\* in the order of source_files
IsSubsequenceAt(v, source_files, keep) ==
    /\ DOMAIN v = 1..Cardinality(keep)
    /\ \A i \in keep : v[Cardinality({j \in keep : j <= i})] = source_files[i]

\* C21: get_unprocessed_files returns, for every list of file names (names
\* repeated or not) and every state of the store, exactly the elements of the
\* list that have no record, in the order of the list, and does not modify
\* the store.
C21_UnprocessedFilter ==
    /\ [](call.op = "get_unprocessed_files" =>
             IsSubsequenceAt(call.value, call.source_files,
                             Unrecorded(call.source_files)))
    /\ [][call'.op = "get_unprocessed_files" =>
             processed_files' = processed_files /\ errors' = errors]_vars

\* C21 witness: asked about a recorded name between two occurrences of a name
\* without a record, get_unprocessed_files has returned the two occurrences
C21_Witness ==
    /\ call.op = "get_unprocessed_files"
    /\ Tracked(NameX) /\ ~Tracked(NameA)
    /\ call.source_files = <<NameA, NameX, NameA>>
    /\ call.value = <<NameA, NameA>>

\* the answers of is_file_processed for the names other than f are the same
\* before and after the step
SameAnswersBut(f) ==
    \A g \in StoreNames \ {f} :
        is_file_processed(processed_files', g)
            <=> is_file_processed(processed_files, g)

\* C22: after any sequence of calls to the store, is_file_processed(f) is true
\* exactly when an add_processed_file for f has succeeded; a successful add
\* for f makes it true for f and changes it for no other name, and log_error
\* changes it for no name.
C22_IsProcessedIffAdded ==
    /\ [](\A f \in StoreNames :
             is_file_processed(processed_files, f) <=> f \in added)
    /\ [](call.op = "is_file_processed" =>
             (call.value <=> call.filename \in added))
    /\ [][/\ (call'.op = "add_processed_file" /\ call'.raised = "no") =>
                /\ is_file_processed(processed_files', call'.filename)
                /\ SameAnswersBut(call'.filename)
          /\ call'.op = "log_error" =>
                \A g \in StoreNames :
                    is_file_processed(processed_files', g)
                        <=> is_file_processed(processed_files, g)]_vars

\* C22 witness: after a successful add for a and a log_error for x,
\* is_file_processed has answered true for a while x has no record
C22_Witness ==
    /\ call.op = "is_file_processed"
    /\ call.filename = NameA /\ call.value
    /\ NameA \in added /\ NameX \notin added
    /\ errors # <<>> /\ errors[1].filename = NameX
    /\ ~is_file_processed(processed_files, NameX)

\* C23: add_processed_file for a name that already has a record fails with an
\* error and leaves the record table unchanged: the record keeps its fields
\* and no second record is added.
C23_DuplicateAddFails ==
    [][(call'.op = "add_processed_file"
          /\ is_file_processed(processed_files, call'.filename)) =>
             /\ call'.raised = "IntegrityError"
             /\ processed_files' = processed_files
             /\ Cardinality({i \in DOMAIN processed_files' :
                    processed_files'[i].filename = call'.filename}) = 1]_vars

\* C23 witness: a second add for a, with another size, has failed and the
\* record of the first add is the only one
C23_Witness ==
    /\ call.op = "add_processed_file"
    /\ call.filename = NameA
    /\ call.raised = "IntegrityError"
    /\ Len(processed_files) = 1
    /\ processed_files[1].filename = NameA

\* C24: after any sequence of add_processed_file and log_error calls,
\* get_statistics returns total_files equal to the number of records,
\* total_size equal to the sum of their sizes (0 without records), total_errors
\* equal to the number of entries of the error log, and last_copy equal to the
\* greatest copy_date (none without records).
C24_Statistics ==
    call.op = "get_statistics" =>
        /\ call.value.total_files = Len(processed_files)
        /\ call.value.total_size = SumSize(processed_files)
        /\ processed_files = <<>> => call.value.total_size = 0
        /\ call.value.total_errors = Len(errors)
        /\ IF processed_files = <<>>
           THEN call.value.last_copy = None
           ELSE /\ \E i \in DOMAIN processed_files :
                      processed_files[i].copy_date = call.value.last_copy
                /\ \A i \in DOMAIN processed_files :
                      processed_files[i].copy_date <= call.value.last_copy

\* C24 witness: get_statistics has answered on two records, the older one
\* added last, and one entry of the error log
C24_Witness ==
    /\ call.op = "get_statistics"
    /\ Len(processed_files) = 2 /\ Len(errors) = 1
    /\ processed_files[1].copy_date > processed_files[2].copy_date
    /\ call.value.last_copy = processed_files[1].copy_date
    /\ call.value.total_size = processed_files[1].size + processed_files[2].size
    /\ call.value.total_errors = 1

\* the records of ordered after the first offset, at most limit of them
\* (limit <<>> is no limit)
Page(ordered, limit, offset) ==
    LET last == IF limit = <<>> \/ offset + limit[1] > Len(ordered)
                THEN Len(ordered) ELSE offset + limit[1]
    IN  [k \in 1..(IF last > offset THEN last - offset ELSE 0) |->
            ordered[offset + k]]

\* C30: get_processed_files(limit, offset) returns the records ordered
\* most-recent-first by copy_date, without the first offset records of that
\* order and at most limit of them, for every limit and offset, an offset
\* given without a limit and the limit 0 included.
C30_Pagination ==
    call.op = "get_processed_files" =>
        \E ordered \in OrderedByCopyDate(processed_files) :
            call.value = Page(ordered, call.limit, call.offset)

\* the same for the calls with a limit of at least 1 and for the calls with
\* neither limit nor offset
C30_PaginationWithLimit ==
    (/\ call.op = "get_processed_files"
     /\ \/ call.limit # <<>> /\ call.limit[1] >= 1
        \/ call.limit = <<>> /\ call.offset = 0) =>
        \E ordered \in OrderedByCopyDate(processed_files) :
            call.value = Page(ordered, call.limit, call.offset)

\* C30 witness: on two records, get_processed_files with the offset 1 and no
\* limit has returned both records, and with the limit 0 it has returned both
C30_Witness ==
    /\ call.op = "get_processed_files"
    /\ Len(processed_files) = 2
    /\ Len(call.value) = 2
    /\ \/ call.limit = <<>> /\ call.offset = 1
       \/ call.limit = <<0>>

\* no candidate source path with the base name n holds a file
NoSourceFile(n) == \A p \in SourcePaths : p.name = n => source[p] = NoFile

\* how often the name n is in a list of names
Occurrences(n, names) == Cardinality({i \in DOMAIN names : names[i] = n})

\* the names of the entries of files_errors
ErrorNames(files_errors) == [i \in DOMAIN files_errors |-> files_errors[i].file]

\* the rows of the record table for the name n
RecordsOf(table, n) == SelectSeq(table, LAMBDA r : r.filename = n)

\* C25: a file name that has a record but no file in the source is never
\* touched by process_batch: it is in no list of the result, its record stays
\* as it is, nothing is created or deleted at its target path and it still
\* counts in total_files; a source file whose name has a record is not copied
\* again and not counted as processed.
C25_RecordedUntouched ==
    /\ [](\A n \in Names : (Tracked(n) /\ NoSourceFile(n)) =>
             \A s \in {stats[1], result[1].stats} :
                 /\ Occurrences(n, s.files_processed) = 0
                 /\ Occurrences(n, s.files_skipped) = 0
                 /\ Occurrences(n, ErrorNames(s.files_errors)) = 0)
    /\ [][\A n \in Names : Tracked(n) =>
             /\ RecordsOf(processed_files', n) = RecordsOf(processed_files, n)
             /\ get_statistics(processed_files', errors').total_files
                    >= get_statistics(processed_files, errors).total_files
             /\ target'[n] = target[n]
             /\ times_processed'[n] = times_processed[n]
             /\ Occurrences(n, stats'[1].files_processed)
                    <= Occurrences(n, stats[1].files_processed)]_vars

\* C25 witness: c.t was recorded by the store's client and is not in the
\* source; a real-mode batch has then processed a and returned, and nothing
\* is at the target path of c.t
C25_Witness ==
    /\ Len(processed_files) = 2
    /\ processed_files[1].filename = NameT
    /\ processed_files[1].source_path.dir = "api"
    /\ NoSourceFile(NameT)
    /\ result[1].kind = "batch"
    /\ result[1].stats.files_processed = <<NameA>>
    /\ target[NameT] = NoFile
    /\ get_statistics(processed_files, errors).total_files = 2

\* lines 207-232 of process_batch: the batch selected when glob() discovers
\* the source in the given order
SelectedBatch(p, discovery) ==
    LET source_files == get_source_files(discovery, cfg[p].exclude_patterns)
        filenames == [i \in DOMAIN source_files |-> source_files[i].name]
        unprocessed_names == get_unprocessed_files(processed_files, filenames)
    IN  IF source_files = <<>> THEN <<>>
        ELSE SelectFiles(source_files, unprocessed_names, cfg[p].batch_size, <<>>)

\* the orders in which processor p may discover the source as it is
Discoveries(p) == Orderings(Globbed(source, cfg[p].recursive))

\* files holds each non-excluded regular file of the source once, in an
\* order in which the base names do not decrease
SortedListing(p, files) ==
    /\ Range(files) = {f \in Globbed(source, cfg[p].recursive) :
                          ~_is_excluded(f, cfg[p].exclude_patterns)}
    /\ \A i, j \in DOMAIN files : i < j =>
          /\ files[i] # files[j]
          /\ ~StrLess(files[j].name, files[i].name)

\* C26: get_source_files returns the non-excluded regular files sorted by
\* base file name, two calls on the same source return the same sequence
\* whatever the order in which the directory is discovered, and so two calls
\* of process_batch from the same state of the store select the same batch.
C26_DeterministicOrdering ==
    pc[1] # "new" =>
        \A d1, d2 \in Discoveries(1) :
            /\ SortedListing(1, get_source_files(d1, cfg[1].exclude_patterns))
            /\ get_source_files(d1, cfg[1].exclude_patterns)
                   = get_source_files(d2, cfg[1].exclude_patterns)
            /\ SelectedBatch(1, d1) = SelectedBatch(1, d2)

\* the part of C26 that does not depend on the discovery order: the listing
\* is sorted by base name, and the base names listed and selected are the same
C26_SortedByName ==
    pc[1] # "new" =>
        \A d1, d2 \in Discoveries(1) :
            LET l1 == get_source_files(d1, cfg[1].exclude_patterns)
                l2 == get_source_files(d2, cfg[1].exclude_patterns)
                b1 == SelectedBatch(1, d1)
                b2 == SelectedBatch(1, d2)
            IN  /\ SortedListing(1, l1)
                /\ [i \in DOMAIN l1 |-> l1[i].name] = [i \in DOMAIN l2 |-> l2[i].name]
                /\ [i \in DOMAIN b1 |-> b1[i].name] = [i \in DOMAIN b2 |-> b2[i].name]

\* C26 witness: a recursive processor with batch size 1 has selected sub/a
\* while a of the source root, of the same base name, has no record either
C26_Witness ==
    /\ pc[1] = "file"
    /\ cfg[1].recursive /\ cfg[1].batch_size = 1
    /\ source[PathA] # NoFile /\ source[PathSubA] # NoFile
    /\ ~Tracked(NameA)
    /\ files_to_process[1] = <<PathSubA>>
    /\ \E d \in Discoveries(1) : SelectedBatch(1, d) = <<PathA>>

\* the base names of the files the loop has handled with the outcome o, in
\* the order of the loop
NamesWith(p, o) ==
    LET es == SelectSeq(handled[p], LAMBDA e : e.outcome = o)
    IN  [i \in DOMAIN es |-> es[i].file.name]

\* the sum of the sizes of the source files handled with the outcome o
RECURSIVE SizeWith(_, _)
SizeWith(entries, o) ==
    IF entries = <<>> THEN 0
    ELSE (IF Head(entries).outcome = o THEN source[Head(entries).file].size ELSE 0)
         + SizeWith(Tail(entries), o)

\* C27: in every result of a completed real-mode process_batch, processed is
\* the length of files_processed and the number of records the run inserted,
\* total_size is the sum of the sizes of the files in files_processed, skipped
\* is the length of files_skipped, errors is the length of files_errors, and
\* every file the run handled is in exactly one of the three lists.
C27_ResultConsistency ==
    /\ []((result[1].kind = "batch" /\ ~cfg[1].dry_run) =>
            LET s == result[1].stats
            IN  /\ s.processed = Len(s.files_processed)
                /\ s.skipped = Len(s.files_skipped)
                /\ s.errors = Len(s.files_errors)
                /\ s.total_size = SizeWith(handled[1], "processed")
                /\ s.files_processed = NamesWith(1, "processed")
                /\ s.files_skipped = NamesWith(1, "skipped")
                /\ ErrorNames(s.files_errors) = NamesWith(1, "error")
                /\ s.processed + s.skipped + s.errors = Len(handled[1])
                /\ Len(handled[1]) = Len(files_to_process[1]))
    /\ [][(pc[1] \in InBatch /\ ~cfg[1].dry_run) =>
            Len(processed_files') - Len(processed_files)
                = stats'[1].processed - stats[1].processed]_vars

\* C27 witness: a real-mode run has returned after processing a and skipping
\* sub/a, of the same base name
C27_Witness ==
    /\ result[1].kind = "batch" /\ ~cfg[1].dry_run
    /\ result[1].stats.files_processed = <<NameA>>
    /\ result[1].stats.files_skipped = <<NameA>>
    /\ result[1].stats.total_size = source[handled[1][1].file].size
    /\ Len(processed_files) = 1

\* the stronger reading: no file name is in more than one list
C27_NameInOneList ==
    (result[1].kind = "batch" /\ ~cfg[1].dry_run) =>
        \A n \in Names :
            Cardinality({l \in {"p", "s", "e"} :
                CASE l = "p" -> Occurrences(n, result[1].stats.files_processed) > 0
                  [] l = "s" -> Occurrences(n, result[1].stats.files_skipped) > 0
                  [] l = "e" -> Occurrences(n, ErrorNames(result[1].stats.files_errors)) > 0})
              <= 1

\* the source files processor p lists, none excluded, all have a record
\* (so also when it lists none)
NothingToProcess(p) ==
    \A f \in Globbed(source, cfg[p].recursive) :
        ~_is_excluded(f, cfg[p].exclude_patterns) => Tracked(f.name)

\* all counts are zero and all lists empty
ZeroCounts(s) ==
    /\ s.processed = 0 /\ s.skipped = 0 /\ s.errors = 0 /\ s.total_size = 0
    /\ s.files_processed = <<>> /\ s.files_skipped = <<>> /\ s.files_errors = <<>>

\* a call of process_batch that finds nothing to process returns at once,
\* with all counts zero, and leaves the store and the target as they are
EarlyReturnZero ==
    (SelectBatch(1) /\ NothingToProcess(1)) =>
        /\ result'[1].kind = "batch"
        /\ pc'[1] = "idle"
        /\ ZeroCounts(result'[1].stats)
        /\ world' = world

\* C28: every result returned by process_batch carries all fields of the
\* result, the duration included, also when the source has no files or when
\* every source file is already recorded; in those two cases all counts are
\* zero and the store and the target are unchanged.
C28_ResultFields ==
    /\ [](result[1].kind = "batch" => result[1].stats.duration = "set")
    /\ [][EarlyReturnZero]_vars

\* the part of C28 about the counts, the store and the target
C28_EarlyReturnZero == [][EarlyReturnZero]_vars

\* the duration is in the result exactly when the run selected a file
C28_DurationIffSelected ==
    result[1].kind = "batch" =>
        (result[1].stats.duration = "set" <=> files_to_process[1] # <<>>)

\* C28 witness: a second run, finding every source file recorded, has
\* returned a result with zero counts and without the duration
C28_Witness ==
    /\ result[1].kind = "batch"
    /\ runs = 2
    /\ processed_files # <<>>
    /\ Globbed(source, cfg[1].recursive) # {}
    /\ NothingToProcess(1)
    /\ ZeroCounts(result[1].stats)
    /\ result[1].stats.duration = "absent"

\* C29: in clean_target_orphans in real mode, a failure to delete one orphan
\* does not abort the pass: every other orphan is still deleted, the file
\* whose deletion failed stays, and the count returned is the number of
\* orphans deleted, the failed one not counted.
C29_DeleteFailureContinues ==
    /\ [][clean_seen'[1].failed \ clean_seen[1].failed # {} =>
             /\ pc'[1] = "clean"
             /\ orphans'[1] = orphans[1] \ clean_seen'[1].failed
             /\ target' = target
             /\ deleted' = deleted]_vars
    /\ [][(CleanReturnsAfterLoop(1) /\ ~cfg[1].dry_run) =>
             /\ \A n \in OrphansFound(1) :
                    IF n \in clean_seen[1].failed
                    THEN target'[n] = clean_seen[1].before[n]
                    ELSE target'[n] = NoFile
             /\ result'[1].deleted
                    = Cardinality(OrphansFound(1) \ clean_seen[1].failed)]_vars

\* C29 witness: of the two orphans a and c.t, the deletion of a has failed;
\* the pass is at its end, c.t is deleted and counted and a is still there
C29_Witness ==
    /\ pc[1] = "clean" /\ ~cfg[1].dry_run
    /\ orphans[1] = {}
    /\ OrphansFound(1) = {NameA, NameT}
    /\ clean_seen[1].failed = {NameA}
    /\ target[NameA] # NoFile /\ target[NameT] = NoFile
    /\ deleted[1] = 1

\* a table with one row per element of a list of names, repeated or not, as
\* a store without the UNIQUE constraint would hold it
RECURSIVE TableOf(_)
TableOf(names) ==
    IF names = <<>> THEN <<>>
    ELSE add_processed_file(TableOf(SubSeq(names, 1, Len(names) - 1)),
                            names[Len(names)],
                            [dir |-> "api", name |-> names[Len(names)]],
                            [dir |-> "target", name |-> names[Len(names)]],
                            1, Len(names), None)

\* no file name has more than one row
NoDuplicates(table) ==
    \A i, j \in DOMAIN table : table[i].filename = table[j].filename => i = j

\* C31: check_integrity reports the status 'ok' exactly when the native check
\* is ok and no file name has more than one record; after any sequence of
\* add_processed_file calls (successful or failing on a duplicate), log_error
\* calls and process_batch calls it reports no duplicates.
C31_IntegrityReport ==
    /\ \A names \in UNION {[1..n -> Names] : n \in 0..MaxRows},
          ic \in IntegrityChecks :
          check_integrity(TableOf(names), ic).status = "ok"
              <=> (ic = "ok" /\ NoDuplicates(TableOf(names)))
    /\ call.op = "check_integrity" =>
          /\ call.value.status = "ok" <=> call.integrity_check = "ok"
          /\ call.value.duplicates = {}
          /\ call.value.duplicate_count = 0
          /\ NoDuplicates(processed_files)

\* C31 witness: after a batch that recorded a file and logged an error, and
\* after an add_processed_file that failed on a duplicate, check_integrity has
\* reported 'ok' and no duplicates
C31_Witness ==
    /\ call.op = "check_integrity"
    /\ call.value.status = "ok" /\ call.value.duplicates = {}
    /\ api_result = "IntegrityError"
    /\ errors # <<>>
    /\ \E i \in DOMAIN processed_files : processed_files[i].source_path.dir # "api"

\* the copy of the source file named n fails on every attempt: its target
\* path is taken by a file that was put there by hand and has no record
CopyAlwaysFails(n) == target[n] = External /\ ~Tracked(n)

\* every non-excluded source name but the ones whose copy always fails has a
\* record
OthersProcessed(p) ==
    \A n \in SourceNames(p) : CopyAlwaysFails(n) \/ Tracked(n)

\* C32: no starvation by a failing file: if the copy of one source file fails
\* on every attempt (its target path exists and is never removed) and nothing
\* else fails, repeated process_batch runs eventually process every other
\* non-excluded source file, for every batch size >= 1.
C32_NoStarvation == ([](faults = 0)) => <>[]OthersProcessed(1)

\* with batch size 1 and the failing file first in the listing, the runs
\* process nothing however often they are repeated
C32_StarvedForever ==
    (/\ pc[1] = "idle" /\ cfg[1].batch_size = 1
     /\ CopyAlwaysFails(NameA) /\ NameA \in SourceNames(1)) =>
        \A source_files \in Listings(1) :
            TotalProcessed(processed_files, PresentNames(target), source_files, 1) = 0

\* C32 witness: with batch size 1, two runs have each selected a, whose
\* target path is taken, and failed on it; c.t, which nothing prevents from
\* being copied, has no record and no target file
C32_Witness ==
    /\ pc[1] = "idle" /\ runs = 2 /\ faults = 0
    /\ cfg[1].batch_size = 1
    /\ CopyAlwaysFails(NameA)
    /\ NameT \in SourceNames(1)
    /\ ~Tracked(NameT) /\ target[NameT] = NoFile
    /\ Len(errors) = 2
    /\ result[1].kind = "batch" /\ result[1].stats.files_errors # <<>>

\* the rows process_batch inserted (the client's rows name no source path)
InsertedByBatch(r) == r.source_path.dir # "api"

\* C33: record implies copy: with a single sequential process and no outside
\* change to the target, at every step of any sequence of process_batch and
\* clean_target_orphans calls, and so wherever the process may be terminated,
\* every record inserted by process_batch has its target file present with
\* the recorded size.
C33_RecordImpliesCopy ==
    \A i \in DOMAIN processed_files :
        InsertedByBatch(processed_files[i]) =>
            /\ target[processed_files[i].filename] # NoFile
            /\ target[processed_files[i].filename].size = processed_files[i].size

\* C33 witness: the opposite divergence: c.t is recorded with its copy in
\* place, and the copy of a is in the target while a has no record yet
C33_Witness ==
    /\ \E i \in DOMAIN processed_files :
          /\ processed_files[i].filename = NameT
          /\ InsertedByBatch(processed_files[i])
          /\ target[NameT].size = processed_files[i].size
    /\ target[NameA] # NoFile /\ target[NameA] # External
    /\ ~Tracked(NameA)

\* a real-mode process_batch of processor p handles a file and counts it as
\* processed in this step
CountsProcessed(p) ==
    /\ ~cfg[p].dry_run
    /\ Len(handled'[p]) = Len(handled[p]) + 1
    /\ Last(handled'[p]).outcome = "processed"

\* at most one file per base name is recorded and counted as processed by
\* the real-mode runs, and a recorded name's target copy is never rewritten
OneCopyPerName(p) ==
    ~cfg[p].dry_run =>
        \A n \in Names :
            /\ Cardinality({i \in DOMAIN processed_files :
                               /\ processed_files[i].filename = n
                               /\ InsertedByBatch(processed_files[i])}) <= 1
            /\ times_processed[n] <= 1
            /\ Occurrences(n, stats[p].files_processed) <= 1

\* C34 as stated (base-name collision): across the real-mode runs at most
\* one of two source files with the same base name is copied and recorded,
\* the other is never counted as processed, the recorded name's target copy
\* is never overwritten, and the file that is counted as processed is the
\* first of its name in the order of the batch.
C34_FirstInOrderWins ==
    /\ []OneCopyPerName(1)
    /\ [][\A n \in Names : Tracked(n) => target'[n] = target[n]]_vars
    /\ [][CountsProcessed(1) =>
             \A j \in 1..(idx[1] - 1) :
                 files_to_process[1][j].name # CurName(1)]_vars

\* C34 (base-name collision, amended): as above, but the file counted as
\* processed is the first of its name in the order of the batch among those
\* whose copy and insert did not fail: every file of the same name earlier in
\* the batch ended as an error and left no record.
C34_BaseNameCollision ==
    /\ []OneCopyPerName(1)
    /\ [][\A n \in Names : Tracked(n) => target'[n] = target[n]]_vars
    /\ [][CountsProcessed(1) =>
             \A j \in 1..(idx[1] - 1) :
                 files_to_process[1][j].name = CurName(1) =>
                     /\ handled[1][j].outcome = "error"
                     /\ ~Tracked(CurName(1))]_vars

\* witness of C34: a real-mode batch held both files named "a"; the first
\* was copied and recorded, the second skipped, and the target still holds
\* the first one's content
C34_Witness ==
    /\ ~cfg[1].dry_run
    /\ Len(handled[1]) = 2
    /\ handled[1][1].file = PathA /\ handled[1][1].outcome = "processed"
    /\ handled[1][2].file = PathSubA /\ handled[1][2].outcome = "skipped"
    /\ target[NameA] = Content(PathA)
    /\ \E i \in DOMAIN processed_files :
          processed_files[i].filename = NameA /\ processed_files[i].source_path = PathA

\* process_batch of processor p has ended with the exception of log_error,
\* called for the failed insert of the current file
AbortedByLogError(p) == pc[p] = "raised" /\ cur[p].env = "insert_fail"

\* C35 (rollback before logging): when the insert of a copied file fails,
\* the target file is deleted before the error is logged: at the call of
\* log_error, whether it succeeds or raises, the target holds no file of
\* that name; and when log_error raises and process_batch ends with the
\* exception, returning no result, the target holds no copy of the file and
\* the store no record of it.
C35_RollbackBeforeLogging ==
    /\ [](AbortedByLogError(1) =>
            /\ target[CurName(1)] = NoFile
            /\ ~Tracked(CurName(1)))
    /\ [][LogDbError(1) \/ LogDbErrorFails(1) =>
             /\ target[CurName(1)] = NoFile
             /\ target' = target
             /\ processed_files' = processed_files]_vars
    /\ [][LogDbErrorFails(1) => result' = result /\ errors' = errors]_vars

\* witness of C35: a file was copied, its insert failed and log_error raised:
\* process_batch has ended with the exception, nothing about the file is
\* left in the target, the store or the error log
C35_Witness ==
    /\ AbortedByLogError(1)
    /\ CurFile(1) = PathA
    /\ target[NameA] = NoFile
    /\ ~Tracked(NameA)
    /\ errors = <<>>

\* main has just loaded, validated and overridden its configuration
ConfigApplied(p) == config[p] = NoConfig /\ config'[p] # NoConfig

\* the configuration files with dry_run true from which the command line cli
\* gives the configuration conf
FromDryRunFile(conf, file, cli) ==
    /\ file.dry_run
    /\ _validate_config(file) = "ok"
    /\ conf = apply_cli_overrides(file, cli)

\* the command-line flag turns simulation mode on, whatever the file says,
\* and the processor is built in the mode of the effective configuration
C36_FlagTurnsOn ==
    /\ [][ConfigApplied(1) =>
             \A file \in ConfigFiles, cli \in CliOptions :
                 (/\ _validate_config(file) = "ok"
                  /\ config'[1] = apply_cli_overrides(file, cli)
                  /\ cli.dry_run) => config'[1].dry_run]_vars
    /\ [](pc[1] # "new" => cfg[1].dry_run = config[1].dry_run)

\* C36 as stated (dry-run is never switched off by the command line): when
\* dry_run is true in the configuration file or the environment, the
\* effective configuration has dry_run true whatever the command line, and
\* the processor runs in simulation mode.
C36_DryRunNeverSwitchedOff ==
    /\ [][ConfigApplied(1) =>
             \A file \in ConfigFiles, cli \in CliOptions :
                 FromDryRunFile(config'[1], file, cli) => config'[1].dry_run]_vars
    /\ [](pc[1] # "new" => cfg[1].dry_run = config[1].dry_run)

\* witness of C36: an invocation whose configuration can come from a file
\* with dry_run true has copied and recorded a file and exited with 0
C36_Witness ==
    /\ exit_code[1] = 0
    /\ times_processed[NameA] = 1
    /\ target[NameA] # NoFile
    /\ ~cfg[1].dry_run
    /\ \E file \in ConfigFiles, cli \in CliOptions :
          FromDryRunFile(config[1], file, cli) /\ ~cli.dry_run

\* C37 as stated (interleaved runs): two interleaved process_batch runs never
\* end in a state in which a name has a record and no target file, and the
\* rollback of the run whose insert was rejected by the uniqueness
\* constraint never removes the file the other run recorded.
C37_NoRecordWithoutFile ==
    /\ [](Quiet => \A i \in DOMAIN processed_files :
                       target[processed_files[i].filename] # NoFile)
    /\ [][\A p \in Procs :
             (Rollback(p) /\ Tracked(CurName(p))) =>
                 target'[CurName(p)] = target[CurName(p)]]_vars

\* witness of C37: both runs have returned; one recorded "a", the other
\* counted it as an error after the uniqueness constraint rejected its
\* insert, and the target holds no file "a"
C37_Witness ==
    /\ Quiet
    /\ Tracked(NameA)
    /\ target[NameA] = NoFile
    /\ \E p, q \in Procs :
          /\ p # q
          /\ result[p].kind = "batch" /\ result[q].kind = "batch"
          /\ result[p].stats.files_processed = <<NameA>>
          /\ result[q].stats.files_errors =
                 <<[file |-> NameA, error |-> "UNIQUE constraint failed"]>>

\* C38 as stated (reconciler against a running batch): clean_target_orphans
\* interleaved with process_batch never deletes a file that has a record at
\* the moment of the deletion, and no interleaving ends with a record whose
\* target file is gone.
C38_ReconcilerSparesBatch ==
    /\ [][CleanDelete(2) =>
             \A n \in Names :
                 (target[n] # NoFile /\ target'[n] = NoFile) => ~Tracked(n)]_vars
    /\ [](Quiet => \A i \in DOMAIN processed_files :
                       target[processed_files[i].filename] # NoFile)

\* witness of C38: the batch has returned with "a" processed and recorded,
\* the reconciler has returned having deleted one file, and the target holds
\* no file "a"
C38_Witness ==
    /\ Quiet
    /\ result[1].kind = "batch"
    /\ result[1].stats.files_processed = <<NameA>>
    /\ result[2].kind = "clean"
    /\ result[2].deleted = 1
    /\ Tracked(NameA)
    /\ target[NameA] = NoFile

\* the file whose turn it is in process_batch of processor p is gone
TurnOfVanished(p) ==
    /\ pc[p] = "file"
    /\ idx[p] <= Len(files_to_process[p])
    /\ source[CurFile(p)] = NoFile

\* C39 as stated (selected source file removed before its turn):
\* process_batch never ends with an exception; at the turn of a file that is
\* gone it counts the file as an error and goes on to the next file.
C39_VanishedSourceIsError ==
    /\ [](pc[1] # "raised")
    /\ [][(TurnOfVanished(1) /\ NextFile(1)) =>
             /\ stats'[1].errors = stats[1].errors + 1
             /\ idx'[1] = idx[1] + 1
             /\ pc'[1] = "file"]_vars

\* witness of C39: "a" was removed after a batch of two files was selected;
\* at its turn process_batch ended with the exception, with no result
\* returned and the other file of the batch not handled
C39_Witness ==
    /\ pc[1] = "raised"
    /\ files_to_process[1] = <<PathA, PathT>>
    /\ idx[1] = 1
    /\ source[PathA] = NoFile
    /\ source[PathT] # NoFile
    /\ handled[1] = <<>>
    /\ result[1] = NoResult
    /\ target[NameT] = NoFile /\ ~Tracked(NameT)
====
